---- MODULE Spec2Model ----
(***************************************************************************)
(* Model of the CRUCIBLE multi-model orchestrator                          *)
(* (agents/orchestrator.py, agents/base_evaluator.py, agents/evaluators).  *)
(*                                                                         *)
(* Conventions                                                             *)
(*   - A Python float that is a quotient of integers is kept exact as a    *)
(*     record [num, den] with den > 0; trust weights are kept in tenths    *)
(*     and confidences in hundredths, so weight * confidence is an integer *)
(*     number of thousandths.                                              *)
(*   - Python's None is the string "None"; a raised exception ends a run   *)
(*     in pc = "raised" with the exception's class name in exception.      *)
(***************************************************************************)
EXTENDS Integers, Sequences, FiniteSets, TLC

VARIABLES
    evaluators,       \* self.evaluators: registered name -> "mock" | "api"
    concept,          \* the proposal, as the set of keywords it contains
    selected_models,  \* the caller's argument: "None" or a sequence of names
    pc,               \* position of run_adversarial_evaluation
    tasks,            \* names whose evaluate() was launched, in launch order
    results,          \* asyncio.gather result slots, one per task
    evaluations,      \* valid_evaluations, as returned by the fan-out
    debates,          \* key_debates
    verdict,          \* the CrucibleVerdict returned ("None" fields before)
    exception,        \* class name of the exception that left the call
    fn,               \* which pure function a function-level specification applies
    fn_in,            \* its argument
    fn_out            \* its result

runVars == <<evaluators, concept, selected_models, pc, tasks, results,
             evaluations, debates, verdict, exception>>
fnVars == <<fn, fn_in, fn_out>>
vars == <<evaluators, concept, selected_models, pc, tasks, results,
          evaluations, debates, verdict, exception, fn, fn_in, fn_out>>

----------------------------------------------------------------------------
(* Bounds of the model *)

\* longest explicit selected_models list
MaxSelect == 2
\* raw scores of a decoded response range over -MaxRaw .. 10 + MaxRaw
MaxRaw == 3

----------------------------------------------------------------------------
(* Generic helpers *)

Min2(a, b) == IF a <= b THEN a ELSE b
Max2(a, b) == IF a >= b THEN a ELSE b

RECURSIVE SumSeq(_)
SumSeq(s) == IF s = <<>> THEN 0 ELSE Head(s) + SumSeq(Tail(s))

\* Python's min() / max() over a non-empty sequence of integers
MinSeq(s) == CHOOSE x \in {s[i] : i \in DOMAIN s} : \A j \in DOMAIN s : x <= s[j]
MaxSeq(s) == CHOOSE x \in {s[i] : i \in DOMAIN s} : \A j \in DOMAIN s : x >= s[j]

\* s[:n]
Take(s, n) == SubSeq(s, 1, Min2(n, Len(s)))

\* all sequences over S of length at most n
SeqsUpTo(S, n) == UNION {[1..k -> S] : k \in 0..n}

----------------------------------------------------------------------------
(* The registry: agents/evaluators/__init__.py *)

\* EVALUATOR_MODELS keys, in insertion order (the order of self.evaluators)
EvaluatorNames ==
    <<"claude_opus", "gpt_o3", "gemini_flash", "deepseek_r1", "grok", "kimi", "qwen">>

Registered == {EvaluatorNames[i] : i \in DOMAIN EvaluatorNames}

\* EVALUATOR_MODELS[name]["weight"], in tenths
Weight10(name) ==
    CASE name = "claude_opus"  -> 15
      [] name = "gpt_o3"       -> 13
      [] name = "gemini_flash" -> 10
      [] name = "deepseek_r1"  -> 12
      [] name = "grok"         -> 11
      [] name = "kimi"         -> 8
      [] name = "qwen"         -> 10

\* EVALUATOR_MODELS[name]["role"]
RoleOf(name) ==
    CASE name = "claude_opus"  -> "deep_reasoning_critic"
      [] name = "gpt_o3"       -> "vc_skeptic"
      [] name = "gemini_flash" -> "speed_analyst"
      [] name = "deepseek_r1"  -> "technical_auditor"
      [] name = "grok"         -> "contrarian"
      [] name = "kimi"         -> "apac_expansion"
      [] name = "qwen"         -> "cost_optimizer"

\* CrucibleOrchestrator.DIMENSIONS
DIMENSIONS ==
    <<"Market Viability", "Technical Feasibility", "Unit Economics",
      "Competitive Moats", "Scaling Bottlenecks">>

DimensionSet == {DIMENSIONS[i] : i \in DOMAIN DIMENSIONS}

\* the names with an API-backed evaluator class (evaluator_classes)
ApiNames == {"claude_opus", "gpt_o3", "deepseek_r1", "grok", "gemini_flash"}

----------------------------------------------------------------------------
(* Evaluators: agents/base_evaluator.py, agents/evaluators/*.py *)

\* a ModelEvaluation (models/evaluation.py)
ModelEvaluation(name, role, scores, fms, pivots, conf, dissent, reasoning) ==
    [model_name |-> name, role |-> role, scores |-> scores,
     failure_modes |-> fms, pivots_suggested |-> pivots, confidence |-> conf,
     dissenting_opinion |-> dissent, reasoning |-> reasoning]

\* the empty dict {}
EmptyScores == [d \in {} |-> 0]

\* placeholder held by a gather slot that has no ModelEvaluation
NoEval == ModelEvaluation("None", "None", EmptyScores, <<>>, <<>>, 0, "None", "")

\* faulty variant of AnyIn: all() in place of any()
AllIn(words, c) == words \subseteq c

\* any(w in concept_lower for w in words): the concept is the set of the
\* keywords it contains
AnyIn(words, c) == (words \cap c) # {}

\* MockEvaluator.evaluate: the rule-based score of one dimension, before clamping
MockRawScore(dim, c) ==
    CASE dim = "Market Viability" ->
            5 + (IF AnyIn({"revenue", "customers", "validated"}, c) THEN 2 ELSE 0)
              + (IF AnyIn({"enterprise", "global", "platform"}, c) THEN 1 ELSE 0)
              - (IF AnyIn({"niche", "small"}, c) THEN 2 ELSE 0)
      [] dim = "Technical Feasibility" ->
            5 + (IF AnyIn({"proven", "existing", "simple"}, c) THEN 2 ELSE 0)
              - (IF AnyIn({"ai", "blockchain", "quantum"}, c) THEN 2 ELSE 0)
      [] dim = "Unit Economics" ->
            5 + (IF AnyIn({"saas", "subscription", "recurring"}, c) THEN 2 ELSE 0)
              - (IF AnyIn({"free", "ad-supported"}, c) THEN 2 ELSE 0)
      [] dim = "Competitive Moats" ->
            5 + (IF AnyIn({"network", "proprietary", "patent"}, c) THEN 2 ELSE 0)
              - (IF AnyIn({"commodity"}, c) THEN 2 ELSE 0)
      [] dim = "Scaling Bottlenecks" ->
            5 + (IF AnyIn({"automated", "platform", "cloud"}, c) THEN 2 ELSE 0)
              - (IF AnyIn({"manual", "custom"}, c) THEN 2 ELSE 0)
      [] OTHER -> 5

\* faulty variant of Clamp: the lower bound is forgotten
ClampUpperOnly(score) == Min2(10, score)

\* max(1, min(10, score))
Clamp(score) == Max2(1, Min2(10, score))

\* MockEvaluator.evaluate(concept, dimensions); confidence=0.3
MockEvaluate(name, c, dims) ==
    ModelEvaluation(
        name, RoleOf(name),
        [d \in {dims[i] : i \in DOMAIN dims} |-> Clamp(MockRawScore(d, c))],
        <<"Mock evaluation - API not available for " \o name,
          "Scores based on keyword analysis only">>,
        <<"Enable API access for deeper multi-model analysis",
          "Provide more details in concept description">>,
        30, "None",
        "Mock " \o RoleOf(name) \o " evaluation using rule-based analysis (API unavailable)")

\* BaseEvaluator._validate_scores
ValidateScores(scores) == [d \in DOMAIN scores |-> Clamp(scores[d])]

\* What a remote call gives back: an HTTP failure, a text that is not JSON, a
\* JSON text that is not an object ("[]", "null", a quoted sentence), or a text
\* that decodes to the dictionary carried in the other fields.
Response(kind, scores, fms, pivots, conf, dissent, reasoning) ==
    [kind |-> kind, scores |-> scores, failure_modes |-> fms, pivots |-> pivots,
     confidence |-> conf, dissenting_opinion |-> dissent, reasoning |-> reasoning]

HttpError == Response("http_error", EmptyScores, <<>>, <<>>, 0, "None", "")
Undecodable == Response("undecodable", EmptyScores, <<>>, <<>>, 0, "None", "")
NotAnObject == Response("not_object", EmptyScores, <<>>, <<>>, 0, "None", "")

\* BaseEvaluator._parse_model_response: what json.loads returns, or the default
\* structure when it raises JSONDecodeError (here on the text "not json")
ParseModelResponse(response) ==
    IF response.kind = "undecodable"
    THEN Response("json", EmptyScores, <<"Failed to parse model response">>, <<>>,
                  50, "None",
                  "Error parsing response: Expecting value: line 1 column 1 (char 0)")
    ELSE response

\* reasoning=parsed.get("reasoning", "")[:500]
ReasoningStored == 500

\* <Provider>Evaluator.evaluate once the remote call has answered: the evaluation
\* built from the parsed response, or "raised" (RuntimeError): on an HTTP error,
\* and on parsed.get(...) when the parsed value is no dictionary (AttributeError,
\* wrapped by `except Exception`)
ApiEvaluate(name, response) ==
    LET parsed == ParseModelResponse(response)
    IN  IF response.kind = "http_error" \/ parsed.kind = "not_object"
        THEN [st |-> "raised", val |-> NoEval]
        ELSE [st |-> "returned",
              val |-> ModelEvaluation(
                          name, RoleOf(name), ValidateScores(parsed.scores),
                          Take(parsed.failure_modes, 5), Take(parsed.pivots, 3),
                          parsed.confidence, parsed.dissenting_opinion,
                          Take(parsed.reasoning, ReasoningStored))]

\* evaluator.evaluate(concept, dimensions) of the evaluator registered under
\* name: a mock evaluator never raises, an API evaluator answers from response
Evaluate(kind, name, c, dims, response) ==
    IF kind = "mock"
    THEN [st |-> "returned", val |-> MockEvaluate(name, c, dims)]
    ELSE ApiEvaluate(name, response)

----------------------------------------------------------------------------
(* Consensus arithmetic: CrucibleOrchestrator._synthesize_verdict, lines 243-255 *)

\* a quotient of two integers, kept exact
Rat(n, d) == [num |-> n, den |-> d]
\* overall >= k, for an integer k
RatGE(r, k) == r.num >= k * r.den

\* the evaluations that score the dimension, in collected order (model_evals)
Contributors(dimension, evals) ==
    SelectSeq(evals, LAMBDA e : dimension \in DOMAIN e.scores)

\* faulty variant of EvalWeight: the confidence is left out of the weight
EvalWeightWithoutConfidence(e) == Weight10(e.model_name) * 100

\* model_weight * eval.confidence, in thousandths
EvalWeight(e) == Weight10(e.model_name) * e.confidence

\* faulty variant of WeightSum: only the first weight is counted
WeightSumOfFirst(contrib) ==
    IF contrib = <<>> THEN 0 ELSE EvalWeight(Head(contrib))

\* sum(weights)
RECURSIVE WeightSum(_)
WeightSum(contrib) ==
    IF contrib = <<>> THEN 0
    ELSE EvalWeight(Head(contrib)) + WeightSum(Tail(contrib))

\* sum(s * w for s, w in zip(scores, weights))
RECURSIVE WeightedScoreSum(_, _)
WeightedScoreSum(contrib, dimension) ==
    IF contrib = <<>> THEN 0
    ELSE Head(contrib).scores[dimension] * EvalWeight(Head(contrib))
         + WeightedScoreSum(Tail(contrib), dimension)

\* round(num / den) for num >= 0 and den > 0.  Python rounds a float half to even,
\* but the float quotient of an exact tie carries the rounding error of the weights
\* (1.5 * 0.3 is not 0.45), so a tie lands on either neighbour: with weights
\* 0.45 and 0.45 the scores 1, 4 give 3 and the scores 1, 6 give 3 as well.
\* Off a tie the result is the nearest integer.
RoundChoices(num, den) ==
    LET q == num \div den
        r == num % den
    IN  IF 2 * r < den THEN {q}
        ELSE IF 2 * r > den THEN {q + 1}
        ELSE {q, q + 1}

----------------------------------------------------------------------------
(* Decision policy: CrucibleOrchestrator._make_decision *)

\* the scores of a list of DimensionScore
ScoresOf(dimension_scores) ==
    [i \in DOMAIN dimension_scores |-> dimension_scores[i].score]

\* faulty variant of MakeDecision: the last row asks for a critically low score
MakeDecisionRequiringLow(overall_score, dimension_scores) ==
    IF dimension_scores = <<>> THEN "ValueError"
    ELSE LET min_score == MinSeq(ScoresOf(dimension_scores))
             critically_low == SelectSeq(dimension_scores, LAMBDA ds : ds.score <= 3)
         IN  IF RatGE(overall_score, 8) /\ min_score >= 6 THEN "STRONG_PROCEED"
             ELSE IF RatGE(overall_score, 7) /\ min_score >= 4 THEN "PROCEED"
             ELSE IF RatGE(overall_score, 6) /\ min_score >= 3 THEN "PROCEED_WITH_CAUTION"
             ELSE IF RatGE(overall_score, 5) /\ Len(critically_low) >= 1
                  THEN "PROCEED_WITH_CAUTION"
             ELSE "KILL"

\* _make_decision(overall_score, dimension_scores); min() of an empty sequence
\* raises ValueError
MakeDecision(overall_score, dimension_scores) ==
    IF dimension_scores = <<>> THEN "ValueError"
    ELSE LET min_score == MinSeq(ScoresOf(dimension_scores))
             critically_low == SelectSeq(dimension_scores, LAMBDA ds : ds.score <= 3)
         IN  IF RatGE(overall_score, 8) /\ min_score >= 6 THEN "STRONG_PROCEED"
             ELSE IF RatGE(overall_score, 7) /\ min_score >= 4 THEN "PROCEED"
             ELSE IF RatGE(overall_score, 6) /\ min_score >= 3 THEN "PROCEED_WITH_CAUTION"
             ELSE IF RatGE(overall_score, 5) /\ Len(critically_low) <= 1
                  THEN "PROCEED_WITH_CAUTION"
             ELSE "KILL"

----------------------------------------------------------------------------
(* Validation experiments: CrucibleOrchestrator._generate_experiments *)

\* faulty variant of InsertByScore: ds goes behind the entries of equal score,
\* which reverses the order of ties
RECURSIVE InsertByScoreUnstable(_, _)
InsertByScoreUnstable(ds, sorted) ==
    IF sorted = <<>> THEN <<ds>>
    ELSE IF ds.score < Head(sorted).score THEN <<ds>> \o sorted
    ELSE <<Head(sorted)>> \o InsertByScoreUnstable(ds, Tail(sorted))

\* sorted(dimension_scores, key=lambda x: x.score) is stable: ds, which precedes
\* every entry of sorted in the list, goes in front of the entries of equal score
RECURSIVE InsertByScore(_, _)
InsertByScore(ds, sorted) ==
    IF sorted = <<>> THEN <<ds>>
    ELSE IF ds.score <= Head(sorted).score THEN <<ds>> \o sorted
    ELSE <<Head(sorted)>> \o InsertByScore(ds, Tail(sorted))

RECURSIVE SortedByScore(_)
SortedByScore(dimension_scores) ==
    IF dimension_scores = <<>> THEN <<>>
    ELSE InsertByScore(Head(dimension_scores), SortedByScore(Tail(dimension_scores)))

\* the title of the experiment template chosen by the substring tests on the
\* dimension name ("" when no branch matches and nothing is appended)
ExperimentTitle(dimension) ==
    CASE dimension = "Market Viability"      -> "Customer Discovery Sprint"
      [] dimension = "Technical Feasibility" -> "Technical Proof of Concept"
      [] dimension = "Unit Economics"        -> "Unit Economics Stress Test"
      [] dimension = "Competitive Moats"     -> "Competitive Differentiation Test"
      [] dimension = "Scaling Bottlenecks"   -> "Scaling Simulation"
      [] OTHER -> ""

\* faulty variant of PadExperiments: an if in place of the while
PadExperimentsOnce(experiments) ==
    IF Len(experiments) < 3 THEN Append(experiments, "Assumption Validation")
    ELSE experiments

\* while len(experiments) < 3: experiments.append(<Assumption Validation>)
RECURSIVE PadExperiments(_)
PadExperiments(experiments) ==
    IF Len(experiments) < 3
    THEN PadExperiments(Append(experiments, "Assumption Validation"))
    ELSE experiments

\* _generate_experiments(dimension_scores): the experiments, by title
GenerateExperiments(dimension_scores) ==
    LET weak_dims == Take(SortedByScore(dimension_scores), 3)
        titles == [i \in DOMAIN weak_dims |-> ExperimentTitle(weak_dims[i].dimension)]
        experiments == SelectSeq(titles, LAMBDA t : t # "")
    IN  Take(PadExperiments(experiments), 3)

----------------------------------------------------------------------------
(* Debate detection: CrucibleOrchestrator._run_debate_rounds *)

\* the scores the evaluations give to the dimension, in collected order
DimensionScoresOf(dimension, evals) ==
    LET c == Contributors(dimension, evals)
    IN  [i \in DOMAIN c |-> c[i].scores[dimension]]

\* faulty variant of DebateEntry: a spread of exactly 3 is not flagged
DebateEntryStrict(dimension, evals) ==
    LET scores == DimensionScoresOf(dimension, evals)
    IN  IF scores # <<>> /\ MaxSeq(scores) - MinSeq(scores) > 3
        THEN <<[dimension |-> dimension, min_score |-> MinSeq(scores),
                max_score |-> MaxSeq(scores),
                avg_score |-> Rat(SumSeq(scores), Len(scores))]>>
        ELSE <<>>

\* the debate entry of one dimension (<<>> when none is appended)
DebateEntry(dimension, evals) ==
    LET scores == DimensionScoresOf(dimension, evals)
    IN  IF scores # <<>> /\ MaxSeq(scores) - MinSeq(scores) >= 3
        THEN <<[dimension |-> dimension, min_score |-> MinSeq(scores),
                max_score |-> MaxSeq(scores),
                avg_score |-> Rat(SumSeq(scores), Len(scores))]>>
        ELSE <<>>

\* _run_debate_rounds(evaluations): for dimension in self.DIMENSIONS
RECURSIVE DebatesFrom(_, _)
DebatesFrom(i, evals) ==
    IF i > Len(DIMENSIONS) THEN <<>>
    ELSE DebateEntry(DIMENSIONS[i], evals) \o DebatesFrom(i + 1, evals)

RunDebateRounds(evals) == DebatesFrom(1, evals)

----------------------------------------------------------------------------
(* Consensus synthesis: CrucibleOrchestrator._synthesize_verdict and helpers *)

\* DIMENSION_MODEL_PRIORITY[dimension]
DimensionModelPriority(dimension) ==
    CASE dimension = "Market Viability"      -> <<"gpt_o3", "gemini_flash", "claude_opus">>
      [] dimension = "Technical Feasibility" -> <<"deepseek_r1", "claude_opus", "grok">>
      [] dimension = "Unit Economics"        -> <<"qwen", "gpt_o3", "claude_opus">>
      [] dimension = "Competitive Moats"     -> <<"gpt_o3", "grok", "claude_opus">>
      [] dimension = "Scaling Bottlenecks"   -> <<"deepseek_r1", "kimi", "claude_opus">>
      [] OTHER -> <<>>

\* faulty variant of GetDimensionPerspective: the priority list is not consulted
GetDimensionPerspectiveOfFirst(dimension, model_evals) ==
    IF model_evals # <<>> THEN model_evals[1].role ELSE "consensus"

\* _get_dimension_perspective(dimension, model_evals)
GetDimensionPerspective(dimension, model_evals) ==
    LET priority_models == DimensionModelPriority(dimension)
        hits == SelectSeq(priority_models,
                    LAMBDA m : \E i \in DOMAIN model_evals : model_evals[i].model_name = m)
    IN  IF hits # <<>> THEN RoleOf(Head(hits))
        ELSE IF model_evals # <<>> THEN model_evals[1].role
        ELSE "consensus"

\* a DimensionScore (models/evaluation.py); model_evaluations by model name
DimensionScore(dimension, score, perspective, model_evals) ==
    [dimension |-> dimension, score |-> score, perspective |-> perspective,
     model_evaluations |-> [i \in DOMAIN model_evals |-> model_evals[i].model_name]]

\* sum(weights) == 0 for a dimension that has contributors: the weighted average
\* of line 254 raises ZeroDivisionError
ZeroWeightDimension(evals) ==
    \E i \in DOMAIN DIMENSIONS :
        /\ Contributors(DIMENSIONS[i], evals) # <<>>
        /\ WeightSum(Contributors(DIMENSIONS[i], evals)) = 0

\* the lists dimension_scores can hold after the loop of lines 237-267, from
\* dimension i on (one list, unless a weighted mean is an exact tie)
RECURSIVE DimensionScoreLists(_, _)
DimensionScoreLists(i, evals) ==
    IF i > Len(DIMENSIONS) THEN {<<>>}
    ELSE LET dimension == DIMENSIONS[i]
             model_evals == Contributors(dimension, evals)
             rest == DimensionScoreLists(i + 1, evals)
         IN  IF model_evals = <<>> THEN rest
             ELSE {<<DimensionScore(dimension, consensus_score,
                                    GetDimensionPerspective(dimension, model_evals),
                                    model_evals)>> \o r :
                      consensus_score \in
                          RoundChoices(WeightedScoreSum(model_evals, dimension),
                                       WeightSum(model_evals)),
                      r \in rest}

\* faulty variant of OverallScore: the sum is divided by the number of dimensions
OverallScoreOverAllDimensions(dimension_scores) ==
    Rat(SumSeq(ScoresOf(dimension_scores)), Len(DIMENSIONS))

\* overall_score = sum(ds.score ...) / len(dimension_scores), for a non-empty list
OverallScore(dimension_scores) ==
    Rat(SumSeq(ScoresOf(dimension_scores)), Len(dimension_scores))

\* list(dict.fromkeys(items)): duplicates removed, first occurrence kept
RECURSIVE Dedupe(_)
Dedupe(items) ==
    IF items = <<>> THEN <<>>
    ELSE LET front == Dedupe(SubSeq(items, 1, Len(items) - 1))
             last == items[Len(items)]
         IN  IF \E i \in DOMAIN front : front[i] = last THEN front
             ELSE Append(front, last)

RECURSIVE AllPivots(_)
AllPivots(evals) ==
    IF evals = <<>> THEN <<>>
    ELSE Head(evals).pivots_suggested \o AllPivots(Tail(evals))

\* faulty variant of SynthesizePivots: the concatenation is cut without removing
\* the duplicates
SynthesizePivotsWithRepeats(evals) == Take(AllPivots(evals), 3)

\* _synthesize_pivots(evaluations)
SynthesizePivots(evals) == Take(Dedupe(AllPivots(evals)), 3)

\* sum(eval.scores.values())
RECURSIVE SumScores(_, _)
SumScores(scores, dims) ==
    IF dims = {} THEN 0
    ELSE LET d == CHOOSE x \in dims : TRUE
         IN  scores[d] + SumScores(scores, dims \ {d})

\* faulty variant of AvgModelScore: an output without scores is given the
\* midpoint of the scale
AvgModelScoreMidpoint(e) ==
    IF DOMAIN e.scores = {} THEN Rat(5, 1)
    ELSE Rat(SumScores(e.scores, DOMAIN e.scores), Cardinality(DOMAIN e.scores))

\* sum(eval.scores.values()) / len(eval.scores) if eval.scores else 0
AvgModelScore(e) ==
    IF DOMAIN e.scores = {} THEN Rat(0, 1)
    ELSE Rat(SumScores(e.scores, DOMAIN e.scores), Cardinality(DOMAIN e.scores))

\* greatest common divisor of a >= 0 and b > 0
RECURSIVE Gcd(_, _)
Gcd(a, b) == IF b = 0 THEN a ELSE Gcd(b, a % b)

\* the pairs x < y of means (x = lo / den, y = hi / den, in lowest terms, each a
\* quotient of a sum of scores in 1..10 by a count in 1..5) with y - x = 3 exactly
\* whose float difference is 2.9999999999999996: 23/5 - 8/5 is below 3.0
DifferenceRoundsBelowThree ==
    {[lo |-> 7, hi |-> 16, den |-> 3], [lo |-> 10, hi |-> 19, den |-> 3],
     [lo |-> 17, hi |-> 26, den |-> 3], [lo |-> 20, hi |-> 29, den |-> 3],
     [lo |-> 8, hi |-> 23, den |-> 5], [lo |-> 13, hi |-> 28, den |-> 5],
     [lo |-> 18, hi |-> 33, den |-> 5], [lo |-> 26, hi |-> 41, den |-> 5],
     [lo |-> 31, hi |-> 46, den |-> 5]}

\* abs(a - b) >= 3 as line 458 computes it in floats, for means a, b of at most
\* five scores: the exact comparison, except on the ties listed above
RatDiffGE(a, b, k) ==
    LET d == a.num * b.den - b.num * a.den
        ga == Gcd(a.num, a.den)
        gb == Gcd(b.num, b.den)
        tie == [lo |-> Min2(a.num \div ga, b.num \div gb),
                hi |-> Max2(a.num \div ga, b.num \div gb),
                den |-> a.den \div ga]
    IN  /\ (IF d >= 0 THEN d ELSE 0 - d) >= k * a.den * b.den
        /\ ~(k = 3 /\ a.den \div ga = b.den \div gb /\ tie \in DifferenceRoundsBelowThree)

\* _find_minority_report(evaluations, consensus_score): the model named by the
\* report, or "None"
FindMinorityReport(evals, consensus_score) ==
    LET dissent == SelectSeq(evals,
                       LAMBDA e : RatDiffGE(AvgModelScore(e), consensus_score, 3))
    IN  IF dissent # <<>> THEN Head(dissent).model_name ELSE "None"

\* faulty variant of RefineConcept: the pivots are tested before the decision
RefineConceptPivotsFirst(pivots, decision) ==
    IF pivots # <<>> THEN [text |-> "PIVOTS", pivots |-> Take(pivots, 2)]
    ELSE IF decision = "KILL" THEN [text |-> "KILL", pivots |-> <<>>]
    ELSE [text |-> "concept", pivots |-> <<>>]

\* _refine_concept(concept, pivots, decision): which of the three texts is
\* returned, and the pivots joined into it
RefineConcept(pivots, decision) ==
    IF decision = "KILL" THEN [text |-> "KILL", pivots |-> <<>>]
    ELSE IF pivots # <<>> THEN [text |-> "PIVOTS", pivots |-> Take(pivots, 2)]
    ELSE [text |-> "concept", pivots |-> <<>>]

\* ' AND '.join(items)
RECURSIVE JoinAnd(_)
JoinAnd(items) ==
    IF items = <<>> THEN ""
    ELSE IF Len(items) = 1 THEN items[1]
    ELSE items[1] \o " AND " \o JoinAnd(Tail(items))

\* the f-strings of _refine_concept: the text returned for concept_text by the
\* branch that RefineConcept chose
RefinedText(concept_text, refined) ==
    CASE refined.text = "KILL" ->
             "KILL: " \o concept_text \o " - Fundamental issues require complete rethink."
      [] refined.text = "PIVOTS" -> concept_text \o " PIVOTS: " \o JoinAnd(refined.pivots)
      [] OTHER -> concept_text

\* the CrucibleVerdict assembled at lines 293-305
CrucibleVerdict(evals, debate_list, dimension_scores) ==
    LET overall_score == OverallScore(dimension_scores)
        decision == MakeDecision(overall_score, dimension_scores)
        unified_pivots == SynthesizePivots(evals)
    IN  [consensus_score |-> overall_score,
         decision |-> decision,
         dimension_scores |-> dimension_scores,
         key_debates |-> debate_list,
         unified_pivots |-> unified_pivots,
         validation_experiments |-> GenerateExperiments(dimension_scores),
         minority_report |-> FindMinorityReport(evals, overall_score),
         refined_concept |-> RefineConcept(unified_pivots, decision)]

\* the verdict variable before a verdict is returned
NoVerdict ==
    [consensus_score |-> Rat(0, 1), decision |-> "None", dimension_scores |-> <<>>,
     key_debates |-> <<>>, unified_pivots |-> <<>>, validation_experiments |-> <<>>,
     minority_report |-> "None", refined_concept |-> [text |-> "None", pivots |-> <<>>]]

----------------------------------------------------------------------------
(* Consensus synthesis, continued: reasoning, failure modes and risks.        *)
(* The verdict of the run specification leaves these fields out: the order   *)
(* of a DimensionScore's failure modes depends on the string hashing of the  *)
(* interpreter process.  SynthesizeVerdict below is _synthesize_verdict with *)
(* every field.                                                              *)

\* eval.reasoning[:200]
ReasoningLimit == 200

\* _synthesize_reasoning(dimension, model_evals)
SynthesizeReasoning(dimension, model_evals) ==
    IF model_evals = <<>> THEN "No evaluations available"
    ELSE LET priority_models == DimensionModelPriority(dimension)
             reasoned(m) == SelectSeq(model_evals,
                                LAMBDA e : e.model_name = m /\ e.reasoning # "")
             hits == SelectSeq(priority_models, LAMBDA m : reasoned(m) # <<>>)
         IN  IF hits # <<>> THEN Take(reasoned(Head(hits))[1].reasoning, ReasoningLimit)
             ELSE IF model_evals[1].reasoning # ""
                  THEN Take(model_evals[1].reasoning, ReasoningLimit)
             ELSE "See model evaluations"

\* all_failure_modes of a dimension: the contributors' lists, concatenated
RECURSIVE AllFailureModes(_)
AllFailureModes(model_evals) ==
    IF model_evals = <<>> THEN <<>>
    ELSE Head(model_evals).failure_modes \o AllFailureModes(Tail(model_evals))

\* the orderings of a finite set
RECURSIVE Perms(_)
Perms(S) ==
    IF S = {} THEN {<<>>}
    ELSE UNION {{<<x>> \o p : p \in Perms(S \ {x})} : x \in S}

\* list(set(items)): the distinct items in the iteration order of a set of
\* strings.  The order follows the strings' hashes, which are randomised per
\* interpreter process (PYTHONHASHSEED): every ordering can come out.
SetOrders(items) == Perms({items[i] : i \in DOMAIN items})

\* the iteration orders of one call of _synthesize_verdict: one ordering for
\* every distinct list handed to set(), since within a process equal lists
\* iterate alike
RECURSIVE OrderAssignments(_)
OrderAssignments(lists) ==
    IF lists = {} THEN {[l \in {} |-> <<>>]}
    ELSE LET l == CHOOSE x \in lists : TRUE
         IN  {(l :> p) @@ f : p \in SetOrders(l), f \in OrderAssignments(lists \ {l})}

\* the DimensionScore of lines 260-267 with its reasoning and failure_modes
DetailedDimensionScore(ds, reasoning, failure_modes) ==
    [dimension |-> ds.dimension, score |-> ds.score, reasoning |-> reasoning,
     failure_modes |-> failure_modes, perspective |-> ds.perspective,
     model_evaluations |-> ds.model_evaluations]

\* the lists dimension_scores can hold with every field, for the scores and
\* perspectives of the list given: failure_modes=list(set(all_failure_modes))[:3]
DetailedLists(dimension_scores, evals) ==
    LET model_evals(k) == Contributors(dimension_scores[k].dimension, evals)
        lists == {AllFailureModes(model_evals(k)) : k \in DOMAIN dimension_scores}
    IN  {[k \in DOMAIN dimension_scores |->
             DetailedDimensionScore(
                 dimension_scores[k],
                 SynthesizeReasoning(dimension_scores[k].dimension, model_evals(k)),
                 Take(order[AllFailureModes(model_evals(k))], 3))] :
            order \in OrderAssignments(lists)}

\* faulty variant of RisksOf: a score of 6 still contributes
RisksOfSixOrLess(ds) ==
    IF ds.score <= 6
    THEN [i \in DOMAIN Take(ds.failure_modes, 2) |->
             "[" \o ds.dimension \o "] " \o ds.failure_modes[i]]
    ELSE <<>>

\* for fm in ds.failure_modes[:2]: risks.append(f"[{ds.dimension}] {fm}")
RisksOf(ds) ==
    IF ds.score < 6
    THEN [i \in DOMAIN Take(ds.failure_modes, 2) |->
             "[" \o ds.dimension \o "] " \o ds.failure_modes[i]]
    ELSE <<>>

RECURSIVE AllRisks(_)
AllRisks(dimension_scores) ==
    IF dimension_scores = <<>> THEN <<>>
    ELSE RisksOf(Head(dimension_scores)) \o AllRisks(Tail(dimension_scores))

\* faulty variant of IdentifyRisks: the final truncation is left out
IdentifyRisksUntruncated(dimension_scores) == AllRisks(dimension_scores)

\* _identify_risks(dimension_scores)
IdentifyRisks(dimension_scores) == Take(AllRisks(dimension_scores), 5)

\* the verdicts _synthesize_verdict(concept, evaluations, debates) can return,
\* with every field of dimension_scores and with critical_risks
SynthesizeVerdict(evals, debate_list) ==
    {CrucibleVerdict(evals, debate_list, detailed)
         @@ [critical_risks |-> IdentifyRisks(detailed)] :
        detailed \in UNION {DetailedLists(l, evals) : l \in DimensionScoreLists(1, evals)}}

----------------------------------------------------------------------------
(* The legacy rule-based evaluator: crucible.py, CrucibleEvaluator.  A proposal *)
(* is the set of the keywords its lower-cased text contains; of a             *)
(* DimensionScore the fields dimension, score, failure_modes and perspective  *)
(* are kept.                                                                  *)

\* one keyword test of an _analyze_* function: the flag list a hit appends to,
\* and the one a miss appends to ("none" without an else branch)
LegacyRule(words, on_hit, on_miss) ==
    [words |-> words, on_hit |-> on_hit, on_miss |-> on_miss]

\* the keyword tests of each dimension, in source order
LegacyRules(dimension) ==
    CASE dimension = "Market Viability" ->
             <<LegacyRule({"niche", "small market", "limited audience"}, "red", "none"),
               LegacyRule({"billion", "enterprise", "global", "platform"}, "green", "none"),
               LegacyRule({"new technology", "bleeding edge", "revolutionary"}, "red", "none"),
               LegacyRule({"proven demand", "existing market", "growing need"}, "green", "none"),
               LegacyRule({"validated", "customers", "paying users", "revenue"}, "green", "red")>>
      [] dimension = "Technical Feasibility" ->
             <<LegacyRule({"ai", "machine learning", "blockchain", "quantum"}, "red", "none"),
               LegacyRule({"simple", "existing technology", "proven stack"}, "green", "none"),
               LegacyRule({"experienced", "technical team", "built before"}, "green", "red"),
               LegacyRule({"api", "integration", "dependent on"}, "red", "none")>>
      [] dimension = "Unit Economics" ->
             <<LegacyRule({"subscription", "recurring", "saas", "mrr"}, "green", "none"),
               LegacyRule({"free", "freemium", "ad-supported"}, "red", "none"),
               LegacyRule({"software", "digital", "platform", "marketplace"}, "green", "none"),
               LegacyRule({"hardware", "physical", "inventory", "logistics"}, "red", "none"),
               LegacyRule({"manual", "human-intensive", "service"}, "red", "none"),
               LegacyRule({"automated", "self-service", "viral"}, "green", "none")>>
      [] dimension = "Competitive Moats" ->
             <<LegacyRule({"patent", "proprietary", "network effect", "brand"}, "green", "red"),
               LegacyRule({"integration", "migration", "embedded", "workflow"}, "green", "none"),
               LegacyRule({"easy to switch", "commodity"}, "red", "none"),
               LegacyRule({"first mover", "only", "unique"}, "green", "none"),
               LegacyRule({"crowded", "competitive", "many players"}, "red", "none"),
               LegacyRule({"data", "network", "marketplace", "platform"}, "green", "none")>>
      [] dimension = "Scaling Bottlenecks" ->
             <<LegacyRule({"complex", "custom", "bespoke", "manual"}, "red", "none"),
               LegacyRule({"automated", "standardized", "self-service"}, "green", "none"),
               LegacyRule({"specialized", "expert", "consultant"}, "red", "none"),
               LegacyRule({"platform", "tools", "enabling"}, "green", "none"),
               LegacyRule({"local", "regulated", "licensed", "compliance"}, "red", "none"),
               LegacyRule({"global", "cloud", "distributed"}, "green", "none")>>
      [] OTHER -> <<>>

\* len(green_flags) or len(red_flags) after the keyword tests
LegacyFlags(dimension, c, colour) ==
    LET rules == LegacyRules(dimension)
    IN  Cardinality({i \in DOMAIN rules :
                        IF AnyIn(rules[i].words, c) THEN rules[i].on_hit = colour
                        ELSE rules[i].on_miss = colour})

\* score = base; score += len(green_flags) * green_step;
\* score -= len(red_flags) * red_step, with the steps and the result counted in
\* halves: the steps 1.5 and 2.5 make the score a float that need not be whole
LegacyRawHalves(dimension, c) ==
    LET green == LegacyFlags(dimension, c, "green")
        red == LegacyFlags(dimension, c, "red")
    IN  CASE dimension = "Market Viability"      -> 2 * 5 + green * 4 - red * 4
          [] dimension = "Technical Feasibility" -> 2 * 6 + green * 4 - red * 3
          [] dimension = "Unit Economics"        -> 2 * 5 + green * 4 - red * 4
          [] dimension = "Competitive Moats"     -> 2 * 4 + green * 5 - red * 4
          [] dimension = "Scaling Bottlenecks"   -> 2 * 5 + green * 4 - red * 4

\* score = max(1, min(10, score)), as an exact number in lowest terms
LegacyClamp(halves) ==
    LET clamped == Max2(2, Min2(20, halves))
    IN  IF clamped % 2 = 0 THEN Rat(clamped \div 2, 1) ELSE Rat(clamped, 2)

\* failure_modes[:2] of each _analyze_* function
LegacyFailureModes(dimension) ==
    CASE dimension = "Market Viability" ->
             <<"Market size smaller than anticipated",
               "Customer acquisition costs exceed projections">>
      [] dimension = "Technical Feasibility" ->
             <<"Technology doesn't perform as expected in production",
               "Development timeline exceeds estimates by 2-3x">>
      [] dimension = "Unit Economics" ->
             <<"CAC never achieves acceptable payback period",
               "Gross margins compressed by competition">>
      [] dimension = "Competitive Moats" ->
             <<"Well-funded competitor copies and outspends you",
               "Incumbent leverages existing customer base to enter market">>
      [] dimension = "Scaling Bottlenecks" ->
             <<"Quality degradation as company scales",
               "Infrastructure costs grow faster than revenue">>
      [] OTHER -> <<>>

\* _select_perspective(dimension).value
SelectPerspective(dimension) ==
    CASE dimension = "Market Viability"      -> "VC Skeptic"
      [] dimension = "Technical Feasibility" -> "Domain Expert"
      [] dimension = "Unit Economics"        -> "VC Skeptic"
      [] dimension = "Competitive Moats"     -> "Competitor"
      [] dimension = "Scaling Bottlenecks"   -> "Domain Expert"
      [] OTHER -> "VC Skeptic"

\* _evaluate_dimension(concept, dimension) for one of the five dimensions
EvaluateDimension(c, dimension) ==
    [dimension |-> dimension,
     score |-> LegacyClamp(LegacyRawHalves(dimension, c)),
     failure_modes |-> LegacyFailureModes(dimension),
     perspective |-> SelectPerspective(dimension)]

\* evaluate, lines 105-108: the DimensionScore of each of the five dimensions
LegacyDimensionScores(c) ==
    [i \in DOMAIN DIMENSIONS |-> EvaluateDimension(c, DIMENSIONS[i])]

\* a <= b for exact numbers
RatLE(a, b) == a.num * b.den <= b.num * a.den

\* overall_score = sum(s.score for s in dimension_scores) / len(dimension_scores)
\* of CrucibleEvaluator.evaluate, for scores that are whole or half numbers
RECURSIVE LegacySumHalves(_)
LegacySumHalves(dimension_scores) ==
    IF dimension_scores = <<>> THEN 0
    ELSE Head(dimension_scores).score.num * (2 \div Head(dimension_scores).score.den)
         + LegacySumHalves(Tail(dimension_scores))

LegacyOverallScore(dimension_scores) ==
    Rat(LegacySumHalves(dimension_scores), 2 * Len(dimension_scores))

\* CrucibleEvaluator._make_decision(overall_score, dimension_scores), for the
\* non-empty list evaluate passes
LegacyMakeDecision(overall_score, dimension_scores) ==
    LET min_score == CHOOSE s \in {dimension_scores[i].score : i \in DOMAIN dimension_scores} :
                         \A j \in DOMAIN dimension_scores : RatLE(s, dimension_scores[j].score)
        critically_low == SelectSeq(dimension_scores, LAMBDA ds : RatLE(ds.score, Rat(3, 1)))
    IN  IF RatGE(overall_score, 8) /\ RatGE(min_score, 6) THEN "STRONG_PROCEED"
        ELSE IF RatGE(overall_score, 7) /\ RatGE(min_score, 4) THEN "PROCEED"
        ELSE IF RatGE(overall_score, 6) /\ RatGE(min_score, 3) THEN "PROCEED_WITH_CAUTION"
        ELSE IF RatGE(overall_score, 5) /\ Len(critically_low) <= 1
             THEN "PROCEED_WITH_CAUTION"
        ELSE "KILL"

----------------------------------------------------------------------------
(* Inputs of a run *)

\* ANTHROPIC_API_KEY ... GOOGLE_API_KEY: the sets of names whose key is set
KeySets == {{}, {"claude_opus"}, {"claude_opus", "gpt_o3", "deepseek_r1"}}

\* _initialize_evaluators: an API evaluator when use_mock is off, the name has an
\* evaluator class and its key is set; a MockEvaluator otherwise
InitializeEvaluators(use_mock, keys) ==
    [n \in Registered |->
        IF ~use_mock /\ n \in ApiNames /\ n \in keys THEN "api" ELSE "mock"]

\* proposals, as keyword sets: no keyword, and
\* "B2B SaaS platform with proven revenue" (test_multimodel.py)
Concepts == {{}, {"saas", "platform", "proven", "revenue"}}

\* selected_models: None, or a list of names
NoneSelected == [given |-> FALSE, names |-> <<>>]
SelectableNames == {"claude_opus", "gpt_o3", "kimi", "bogus"}
Selections ==
    {NoneSelected} \cup
    {[given |-> TRUE, names |-> s] : s \in SeqsUpTo(SelectableNames, MaxSelect)}

\* a decoded response
JsonResponse(scores, conf) ==
    Response("json", scores, <<"Burn rate exceeds runway">>,
             <<"Narrow to one vertical">>, conf, "None", "Reasoned analysis")

\* raw score dictionaries of decoded responses: every dimension at 8; two
\* dimensions only, both outside 1..10
RunRawScores ==
    {[d \in DimensionSet |-> 8],
     [d \in {"Market Viability", "Technical Feasibility"} |->
         IF d = "Market Viability" THEN 0 ELSE 12]}

\* answers of a remote call in a run
RunResponses ==
    {HttpError, Undecodable, NotAnObject} \cup
    {JsonResponse(sc, cf) : sc \in RunRawScores, cf \in {0, 80}}

----------------------------------------------------------------------------
(* The run: CrucibleOrchestrator.run_adversarial_evaluation *)

\* models_to_use = selected_models or list(self.evaluators.keys())
ModelsToUse(selected) ==
    IF selected.given /\ selected.names # <<>> THEN selected.names
    ELSE EvaluatorNames

\* the names whose evaluate() is appended to tasks (lines 154-160)
TasksFor(models_to_use) ==
    SelectSeq(models_to_use, LAMBDA m : m \in Registered)

\* the loop of lines 166-172 over the gathered results
ValidEvaluations(gathered) ==
    LET ok == SelectSeq(gathered, LAMBDA r : r.st # "raised")
    IN  [i \in DOMAIN ok |-> ok[i].val]

\* _synthesize_verdict raises ZeroDivisionError: at line 254 when a dimension's
\* weights sum to zero, at line 270 when no DimensionScore was produced
SynthesisRaises(evals) ==
    \/ ZeroWeightDimension(evals)
    \/ \A i \in DOMAIN DIMENSIONS : Contributors(DIMENSIONS[i], evals) = <<>>

Init ==
    /\ \E use_mock \in BOOLEAN, keys \in KeySets :
           evaluators = InitializeEvaluators(use_mock, keys)
    /\ concept \in Concepts
    /\ selected_models \in Selections
    /\ pc = "start"
    /\ tasks = <<>>
    /\ results = <<>>
    /\ evaluations = <<>>
    /\ debates = <<>>
    /\ verdict = NoVerdict
    /\ exception = "None"
    /\ fn = "None"
    /\ fn_in = <<>>
    /\ fn_out = <<>>

\* lines 151-160: the evaluate() coroutines are created, then handed to gather
Launch ==
    /\ pc = "start"
    /\ tasks' = TasksFor(ModelsToUse(selected_models))
    /\ results' = [i \in DOMAIN TasksFor(ModelsToUse(selected_models)) |->
                      [st |-> "pending", val |-> NoEval]]
    /\ pc' = "gather"
    /\ UNCHANGED <<evaluators, concept, selected_models, evaluations, debates,
                   verdict, exception>>
    /\ UNCHANGED fnVars

\* faulty variant of CompleteCall: the outcome goes to the first free slot, as in
\* a list appended to on completion
CompleteCallInArrivalOrder(i, response) ==
    /\ pc = "gather"
    /\ i \in DOMAIN results
    /\ results[i].st = "pending"
    /\ LET free == CHOOSE k \in DOMAIN results :
                       /\ results[k].st = "pending"
                       /\ \A j \in DOMAIN results : results[j].st = "pending" => k <= j
       IN  results' = [results EXCEPT ![free] =
               Evaluate(evaluators[tasks[i]], tasks[i], concept, DIMENSIONS, response)]
    /\ UNCHANGED <<evaluators, concept, selected_models, pc, tasks, evaluations,
                   debates, verdict, exception>>
    /\ UNCHANGED fnVars

\* the i-th gathered call finishes on the answer response: it returns, or its
\* exception is kept in its slot (return_exceptions=True)
CompleteCall(i, response) ==
    /\ pc = "gather"
    /\ i \in DOMAIN results
    /\ results[i].st = "pending"
    /\ results' = [results EXCEPT ![i] =
           Evaluate(evaluators[tasks[i]], tasks[i], concept, DIMENSIONS, response)]
    /\ UNCHANGED <<evaluators, concept, selected_models, pc, tasks, evaluations,
                   debates, verdict, exception>>
    /\ UNCHANGED fnVars

\* one gathered call finishes, in any order
Complete ==
    \E i \in DOMAIN results, response \in RunResponses : CompleteCall(i, response)

\* faulty variant of GatherDone: the wait ends on the first finished call
GatherFirstDone(gathered) ==
    \E i \in DOMAIN gathered : gathered[i].st # "pending"

\* await asyncio.gather(*tasks, return_exceptions=True) resumes when every
\* awaitable is done
GatherDone(gathered) ==
    \A i \in DOMAIN gathered : gathered[i].st # "pending"

\* faulty variant of CancelChildren: the pending calls are left running
CancelChildrenShielded(gathered) == gathered

\* cancelling the gather future cancels every child that is not done; a finished
\* child keeps its result
CancelChildren(gathered) ==
    [i \in DOMAIN gathered |->
        IF gathered[i].st = "pending" THEN [st |-> "cancelled", val |-> NoEval]
        ELSE gathered[i]]

\* the caller cancels the call (task.cancel(), or the timeout of
\* asyncio.wait_for) while it is suspended at line 163, its only suspension
\* point: gather cancels its children and CancelledError leaves
\* _run_parallel_evaluation and run_adversarial_evaluation, which catch nothing
Cancel ==
    /\ pc = "gather"
    /\ results' = CancelChildren(results)
    /\ exception' = "CancelledError"
    /\ pc' = "cancelled"
    /\ UNCHANGED <<evaluators, concept, selected_models, tasks, evaluations, debates,
                   verdict>>
    /\ UNCHANGED fnVars

\* lines 163-174: gather returns when every call is done; exceptions are dropped
Join ==
    /\ pc = "gather"
    /\ GatherDone(results)
    /\ evaluations' = ValidEvaluations(results)
    /\ pc' = "debate"
    /\ UNCHANGED <<evaluators, concept, selected_models, tasks, results, debates,
                   verdict, exception>>
    /\ UNCHANGED fnVars

\* line 128
Debate ==
    /\ pc = "debate"
    /\ debates' = RunDebateRounds(evaluations)
    /\ pc' = "synth"
    /\ UNCHANGED <<evaluators, concept, selected_models, tasks, results, evaluations,
                   verdict, exception>>
    /\ UNCHANGED fnVars

\* line 132, when _synthesize_verdict returns
SynthesizeReturns ==
    /\ pc = "synth"
    /\ ~SynthesisRaises(evaluations)
    /\ \E dimension_scores \in DimensionScoreLists(1, evaluations) :
           verdict' = CrucibleVerdict(evaluations, debates, dimension_scores)
    /\ pc' = "done"
    /\ UNCHANGED <<evaluators, concept, selected_models, tasks, results, evaluations,
                   debates, exception>>
    /\ UNCHANGED fnVars

\* line 132, when _synthesize_verdict raises: the exception leaves
\* run_adversarial_evaluation, which catches nothing
SynthesizeRaises ==
    /\ pc = "synth"
    /\ SynthesisRaises(evaluations)
    /\ exception' = "ZeroDivisionError"
    /\ pc' = "raised"
    /\ UNCHANGED <<evaluators, concept, selected_models, tasks, results, evaluations,
                   debates, verdict>>
    /\ UNCHANGED fnVars

Next ==
    \/ Launch
    \/ Complete
    \/ Cancel
    \/ Join
    \/ Debate
    \/ SynthesizeReturns
    \/ SynthesizeRaises

Spec == Init /\ [][Next]_vars

----------------------------------------------------------------------------
(* Vocabulary of the properties *)

\* the call has ended: a verdict was returned, or an exception left it
Finished == pc \in {"done", "raised"}
\* the fan-out has returned
FannedOut == pc \in {"debate", "synth", "done", "raised"}

AbsInt(x) == IF x >= 0 THEN x ELSE 0 - x

\* the sum of F[x] over x in S
RECURSIVE SumOverSet(_, _)
SumOverSet(S, F) ==
    IF S = {} THEN 0
    ELSE LET x == CHOOSE y \in S : TRUE
         IN  F[x] + SumOverSet(S \ {x}, F)

\* the collected outputs that score the dimension, by position
ScorersOf(dimension) ==
    {i \in DOMAIN evaluations : dimension \in DOMAIN evaluations[i].scores}

\* sum of trust weight x confidence over the scorers of the dimension
Denominator(dimension) ==
    SumOverSet(ScorersOf(dimension),
               [i \in ScorersOf(dimension) |->
                   Weight10(evaluations[i].model_name) * evaluations[i].confidence])

\* sum of score x trust weight x confidence over the scorers of the dimension
Numerator(dimension) ==
    SumOverSet(ScorersOf(dimension),
               [i \in ScorersOf(dimension) |->
                   evaluations[i].scores[dimension]
                   * Weight10(evaluations[i].model_name) * evaluations[i].confidence])

\* the explicit selection names an evaluator that is not registered
NamesUnregistered ==
    /\ selected_models.given
    /\ \E i \in DOMAIN selected_models.names : selected_models.names[i] \notin Registered

----------------------------------------------------------------------------
(* Fan-out and error handling: C1 - C4 *)

\* C1: for an explicit selection of registered evaluators the fan-out returns
\* one output per selected evaluator whose call succeeded, each that of a selected
\* evaluator, so len(result) = len(selected) - number of failed calls.
\* Fails for selected_models = []: line 151 turns it into the whole registry.
C1_FanOutReturnsSucceededOfSelection ==
    (FannedOut /\ selected_models.given /\ ~NamesUnregistered) =>
        LET sel == selected_models.names
            failed == {i \in DOMAIN results : results[i].st = "raised"}
        IN  /\ Len(evaluations) = Len(sel) - Cardinality(failed)
            /\ \A k \in DOMAIN evaluations :
                   \E i \in DOMAIN sel : evaluations[k].model_name = sel[i]

\* C2: when evaluators were launched and every one failed, the call returns a
\* verdict with score 0, KILL, no dimension verdict and three generic
\* experiments.  Fails: line 270 divides by len(dimension_scores) = 0.
C2_AllFailedStillVerdict ==
    (Finished /\ tasks # <<>> /\ \A i \in DOMAIN results : results[i].st = "raised") =>
        /\ pc = "done"
        /\ verdict.consensus_score.num = 0
        /\ verdict.decision = "KILL"
        /\ verdict.dimension_scores = <<>>
        /\ verdict.validation_experiments =
               <<"Assumption Validation", "Assumption Validation", "Assumption Validation">>

\* C3: selected_models = [] launches no evaluator and ends in a verdict with
\* score 0 and KILL.  Fails: the empty list is falsy and every registered
\* evaluator is launched.
C3_EmptySelectionLaunchesNothing ==
    (selected_models.given /\ selected_models.names = <<>>) =>
        /\ pc # "start" => tasks = <<>>
        /\ Finished => /\ pc = "done"
                       /\ verdict.consensus_score.num = 0
                       /\ verdict.decision = "KILL"

\* C4: a call ends without a verdict exactly when the selection names an
\* unregistered evaluator.  Fails: unregistered names are skipped at line 156.
C4_OnlyUnregisteredNameRejects ==
    Finished => (pc = "raised" <=> NamesUnregistered)

----------------------------------------------------------------------------
(* Consensus score: C6, C7 *)

\* C6: in a returned verdict every dimension with a scorer has one
\* DimensionVerdict, and its score is an integer nearest to
\* sum(score x weight x confidence) / sum(weight x confidence) over the scorers;
\* two scorers of equal weight x confidence with scores 4 and 8 give 6.
C6_ConsensusIsRoundedWeightedMean ==
    /\ pc = "done" =>
         /\ \A i \in DOMAIN DIMENSIONS :
                ScorersOf(DIMENSIONS[i]) # {} =>
                    \E k \in DOMAIN verdict.dimension_scores :
                        verdict.dimension_scores[k].dimension = DIMENSIONS[i]
         /\ \A k \in DOMAIN verdict.dimension_scores :
                LET dv == verdict.dimension_scores[k]
                    N == Numerator(dv.dimension)
                    D == Denominator(dv.dimension)
                IN  /\ D > 0
                    /\ 2 * AbsInt(dv.score * D - N) <= D
                    /\ \A j \in DOMAIN verdict.dimension_scores :
                           verdict.dimension_scores[j].dimension = dv.dimension => j = k
    /\ \A e \in {ModelEvaluation(n, RoleOf(n), [d \in {"Unit Economics"} |-> 4],
                                 <<>>, <<>>, c, "None", "") :
                    n \in {"gemini_flash", "qwen"}, c \in {30, 80}} :
           LET other == [e EXCEPT !.scores = [d \in {"Unit Economics"} |-> 8]]
           IN  RoundChoices(WeightedScoreSum(<<e, other>>, "Unit Economics"),
                            WeightSum(<<e, other>>)) = {6}

\* two collected outputs of different weight x confidence and different scores
\* were combined into one DimensionVerdict
C6_Witness ==
    /\ pc = "done"
    /\ \E k \in DOMAIN verdict.dimension_scores :
           \E i, j \in ScorersOf(verdict.dimension_scores[k].dimension) :
               /\ evaluations[i].scores[verdict.dimension_scores[k].dimension]
                      # evaluations[j].scores[verdict.dimension_scores[k].dimension]
               /\ evaluations[i].confidence # evaluations[j].confidence
               /\ evaluations[i].confidence > 0
               /\ evaluations[j].confidence > 0

\* C7: when the weights of a dimension's scorers sum to zero the call still
\* returns a verdict, without a DimensionVerdict for that dimension.
\* Fails: line 254 divides by sum(weights) = 0.
C7_ZeroDenominatorSkipsDimension ==
    \A i \in DOMAIN DIMENSIONS :
        (Finished /\ ScorersOf(DIMENSIONS[i]) # {} /\ Denominator(DIMENSIONS[i]) = 0) =>
            /\ pc = "done"
            /\ \A k \in DOMAIN verdict.dimension_scores :
                   verdict.dimension_scores[k].dimension # DIMENSIONS[i]

----------------------------------------------------------------------------
(* Debate detection: C8 *)

\* C8: once debate detection has run, a dimension has a debate entry iff two
\* collected outputs score it at least 3 apart, and it has at most one entry;
\* scores 5, 5, 8 give an entry and scores 5, 6, 7 give none.
C8_DebateIffSpreadAtLeastThree ==
    /\ pc \in {"synth", "done", "raised"} =>
         \A i \in DOMAIN DIMENSIONS :
            LET d == DIMENSIONS[i]
                entries == {k \in DOMAIN debates : debates[k].dimension = d}
                apart == \E a, b \in ScorersOf(d) :
                             /\ a # b
                             /\ evaluations[a].scores[d] - evaluations[b].scores[d] >= 3
            IN  /\ Cardinality(entries) <= 1
                /\ entries # {} <=> apart
    /\ LET ev(n, sc) == ModelEvaluation(n, RoleOf(n), [d \in {"Unit Economics"} |-> sc],
                                        <<>>, <<>>, 80, "None", "")
       IN  /\ Len(DebateEntry("Unit Economics",
                     <<ev("claude_opus", 5), ev("gpt_o3", 5), ev("grok", 8)>>)) = 1
           /\ DebateEntry("Unit Economics",
                     <<ev("claude_opus", 5), ev("gpt_o3", 6), ev("grok", 7)>>) = <<>>

\* debate detection ran on outputs that disagree by 3 on one dimension and by less
\* on another
C8_Witness ==
    /\ pc = "synth"
    /\ debates # <<>>
    /\ \E i \in DOMAIN DIMENSIONS :
           /\ Cardinality(ScorersOf(DIMENSIONS[i])) >= 2
           /\ \A k \in DOMAIN debates : debates[k].dimension # DIMENSIONS[i]
    /\ \E k \in DOMAIN debates : debates[k].max_score - debates[k].min_score = 3

----------------------------------------------------------------------------
(* Function-level specifications: one call of one function on drawn inputs *)

\* the run's variables, at rest while a single function is applied
RunAtRest ==
    /\ evaluators = InitializeEvaluators(TRUE, {})
    /\ concept = {}
    /\ selected_models = NoneSelected
    /\ pc = "idle"
    /\ tasks = <<>>
    /\ results = <<>>
    /\ evaluations = <<>>
    /\ debates = <<>>
    /\ verdict = NoVerdict
    /\ exception = "None"

\* the lists of DimensionScore over any of the five dimensions, in dimension
\* order, with scores drawn from S
RECURSIVE DimensionScoreInputsFrom(_, _)
DimensionScoreInputsFrom(i, S) ==
    IF i > Len(DIMENSIONS) THEN {<<>>}
    ELSE LET rest == DimensionScoreInputsFrom(i + 1, S)
         IN  rest \cup
             {<<DimensionScore(DIMENSIONS[i], sc, "consensus", <<>>)>> \o r :
                 sc \in S, r \in rest}

\* overall scores around every threshold of the decision table
OverallValues ==
    {Rat(n, 100) : n \in {0, 499, 500, 599, 600, 699, 700, 799, 800, 1000}}

\* dimension scores around every threshold of the decision table
DecisionScores == {2, 3, 4, 6}

InitDecision ==
    /\ RunAtRest
    /\ fn = "call _make_decision"
    /\ fn_in \in {[overall_score |-> o, dimension_scores |-> l] :
                     o \in OverallValues, l \in DimensionScoreInputsFrom(1, DecisionScores)}
    /\ fn_out = "None"

ApplyMakeDecision ==
    /\ fn = "call _make_decision"
    /\ fn_out' = MakeDecision(fn_in.overall_score, fn_in.dimension_scores)
    /\ fn' = "return _make_decision"
    /\ UNCHANGED <<fn_in, evaluators, concept, selected_models, pc, tasks, results,
                   evaluations, debates, verdict, exception>>

NextDecision == ApplyMakeDecision

SpecDecision == InitDecision /\ [][NextDecision]_vars

\* keyword sets of proposals given to a mock evaluator; the keywords are matched
\* as substrings, so a text with "blockchain" has "ai" and one with "customers"
\* has "custom"
EvaluateConcepts ==
    {c \in SUBSET {"customers", "custom", "platform", "niche", "proven", "blockchain", "ai"} :
        /\ "blockchain" \in c => "ai" \in c
        /\ "customers" \in c => "custom" \in c}

\* decoded responses with raw scores inside and outside 1..10 on up to two
\* dimensions
EvaluateRawScores ==
    UNION {[D -> (0 - MaxRaw)..(10 + MaxRaw)] :
              D \in {{}, {"Market Viability"}, {"Market Viability", "Unit Economics"}}}

\* dimension lists given to a mock evaluator: the orchestrator's, and one with
\* a dimension no rule mentions
MockDimensionLists == {DIMENSIONS, <<"Unit Economics", "Team Quality">>}

EvaluateInputs ==
    {[kind |-> "api", name |-> "claude_opus", concept |-> {}, dimensions |-> DIMENSIONS,
      response |-> r] :
        r \in {HttpError, Undecodable, NotAnObject}
              \cup {JsonResponse(sc, 80) : sc \in EvaluateRawScores}}
    \cup
    {[kind |-> "mock", name |-> "kimi", concept |-> c, dimensions |-> dims,
      response |-> Undecodable] :
        c \in EvaluateConcepts, dims \in MockDimensionLists}

InitEvaluate ==
    /\ RunAtRest
    /\ fn = "call evaluate"
    /\ fn_in \in EvaluateInputs
    /\ fn_out = [st |-> "pending", val |-> NoEval]

ApplyEvaluate ==
    /\ fn = "call evaluate"
    /\ fn_out' = Evaluate(fn_in.kind, fn_in.name, fn_in.concept, fn_in.dimensions,
                          fn_in.response)
    /\ fn' = "return evaluate"
    /\ UNCHANGED <<fn_in, evaluators, concept, selected_models, pc, tasks, results,
                   evaluations, debates, verdict, exception>>

NextEvaluate == ApplyEvaluate

SpecEvaluate == InitEvaluate /\ [][NextEvaluate]_vars

\* dimension scores with ties and strict orders among them
ExperimentScores == {2, 5, 8}

InitExperiments ==
    /\ RunAtRest
    /\ fn = "call _generate_experiments"
    /\ fn_in \in DimensionScoreInputsFrom(1, ExperimentScores)
    /\ fn_out = <<>>

ApplyGenerateExperiments ==
    /\ fn = "call _generate_experiments"
    /\ fn_out' = GenerateExperiments(fn_in)
    /\ fn' = "return _generate_experiments"
    /\ UNCHANGED <<fn_in, evaluators, concept, selected_models, pc, tasks, results,
                   evaluations, debates, verdict, exception>>

NextExperiments == ApplyGenerateExperiments

SpecExperiments == InitExperiments /\ [][NextExperiments]_vars

\* a reasoning text longer than ReasoningLimit (218 characters)
LongReasoning ==
    "The addressable market is narrow and the cost of acquiring a customer "
    \o "exceeds the first-year contract value; payback takes three years. "
    \o "The product has no switching cost and two funded incumbents ship the same "
    \o "feature."

\* collected outputs handed to _synthesize_verdict: what an evaluator reported,
\* under each of three evaluator names
SynthesisProfiles ==
    {\* every dimension scored low, two failure modes
     [scores |-> [d \in DimensionSet |-> 4],
      failure_modes |-> <<"Churn", "Burn rate">>,
      pivots |-> <<"Narrow", "Upsell">>, reasoning |-> "Reasoned analysis",
      confidence |-> 80],
     \* three dimensions, no reasoning text
     [scores |-> [d \in {"Market Viability", "Technical Feasibility", "Unit Economics"} |-> 5],
      failure_modes |-> <<"Burn rate", "Lock-in", "Churn">>,
      pivots |-> <<"Upsell", "License", "Franchise">>, reasoning |-> "",
      confidence |-> 80],
     \* one dimension, a repeated failure mode, a long reasoning text
     [scores |-> [d \in {"Market Viability"} |-> 8],
      failure_modes |-> <<"Churn", "Burn rate", "Lock-in", "Fraud", "Churn">>,
      pivots |-> <<"Narrow", "Upsell", "License", "Franchise">>,
      reasoning |-> LongReasoning, confidence |-> 30],
     \* the default structure of an undecodable response
     [scores |-> EmptyScores, failure_modes |-> <<"Failed to parse model response">>,
      pivots |-> <<>>, reasoning |-> "Error parsing response", confidence |-> 50],
     \* confidence 0
     [scores |-> [d \in {"Market Viability"} |-> 8], failure_modes |-> <<>>,
      pivots |-> <<>>, reasoning |-> "", confidence |-> 0],
     \* every dimension scored 3, no pivot
     [scores |-> [d \in DimensionSet |-> 3], failure_modes |-> <<"Fraud">>,
      pivots |-> <<>>, reasoning |-> "Weak on every count", confidence |-> 50]}

SynthesisEvaluations ==
    {ModelEvaluation(n, RoleOf(n), p.scores, p.failure_modes, p.pivots, p.confidence,
                     "None", p.reasoning) :
        n \in {"claude_opus", "gpt_o3", "kimi"}, p \in SynthesisProfiles}

\* lists of none, one or two collected outputs, and of three outputs of three
\* evaluators
SynthesisInputs ==
    {<<>>} \cup {<<e>> : e \in SynthesisEvaluations}
    \cup {<<e1, e2>> : e1 \in SynthesisEvaluations, e2 \in SynthesisEvaluations}
    \cup {<<e1, e2, e3>> :
              e1 \in {e \in SynthesisEvaluations : e.model_name = "kimi"},
              e2 \in {e \in SynthesisEvaluations : e.model_name = "claude_opus"},
              e3 \in {e \in SynthesisEvaluations : e.model_name = "gpt_o3"}}

InitSynthesis ==
    /\ RunAtRest
    /\ fn = "call _synthesize_verdict"
    /\ fn_in \in SynthesisInputs
    /\ fn_out = NoVerdict

ApplySynthesizeVerdict ==
    /\ fn = "call _synthesize_verdict"
    /\ ~SynthesisRaises(fn_in)
    /\ fn_out' \in SynthesizeVerdict(fn_in, RunDebateRounds(fn_in))
    /\ fn' = "return _synthesize_verdict"
    /\ UNCHANGED <<fn_in, evaluators, concept, selected_models, pc, tasks, results,
                   evaluations, debates, verdict, exception>>

ApplySynthesizeVerdictRaises ==
    /\ fn = "call _synthesize_verdict"
    /\ SynthesisRaises(fn_in)
    /\ fn' = "raise _synthesize_verdict"
    /\ UNCHANGED <<fn_in, fn_out, evaluators, concept, selected_models, pc, tasks,
                   results, evaluations, debates, verdict, exception>>

NextSynthesis ==
    \/ ApplySynthesizeVerdict
    \/ ApplySynthesizeVerdictRaises

SpecSynthesis == InitSynthesis /\ [][NextSynthesis]_vars

\* score dictionaries of collected outputs: none reported; one score of 9;
\* means 7/3, 11/2, 8/5 and 8
MinorityScores ==
    {EmptyScores,
     [d \in {"Market Viability"} |-> 9],
     [d \in {"Market Viability", "Technical Feasibility", "Unit Economics"} |->
         IF d = "Unit Economics" THEN 3 ELSE 2],
     [d \in {"Market Viability", "Technical Feasibility"} |->
         IF d = "Market Viability" THEN 5 ELSE 6],
     [d \in DimensionSet |->
         IF d \in {"Market Viability", "Technical Feasibility"} THEN 1 ELSE 2],
     [d \in DimensionSet |-> 8]}

MinorityEvaluations ==
    {ModelEvaluation(n, RoleOf(n), sc, <<>>, <<>>, 80, "None", "") :
        n \in {"claude_opus", "kimi"}, sc \in MinorityScores}

\* overall scores: means of one to five DimensionScore scores
MinorityConsensus == {Rat(3, 1), Rat(6, 1), Rat(16, 3), Rat(17, 2), Rat(23, 5)}

InitMinority ==
    /\ RunAtRest
    /\ fn = "call _find_minority_report"
    /\ fn_in \in {[evaluations |-> l, consensus_score |-> c] :
                     l \in {<<e>> : e \in MinorityEvaluations}
                           \cup {<<e1, e2>> : e1 \in MinorityEvaluations,
                                              e2 \in MinorityEvaluations},
                     c \in MinorityConsensus}
    /\ fn_out = "None"

ApplyFindMinorityReport ==
    /\ fn = "call _find_minority_report"
    /\ fn_out' = FindMinorityReport(fn_in.evaluations, fn_in.consensus_score)
    /\ fn' = "return _find_minority_report"
    /\ UNCHANGED <<fn_in, evaluators, concept, selected_models, pc, tasks, results,
                   evaluations, debates, verdict, exception>>

NextMinority == ApplyFindMinorityReport

SpecMinority == InitMinority /\ [][NextMinority]_vars

\* proposal texts, among them texts that look like a refined proposal
ConceptTexts ==
    {"", "Drone delivery", "KILL: Drone delivery",
     "Drone delivery PIVOTS: Narrow",
     "Drone delivery - Fundamental issues require complete rethink."}

\* pivot lists handed to _refine_concept: up to three pivots
RefinePivots == SeqsUpTo({"Narrow", "Upsell", "Narrow AND Upsell"}, 3)

Decisions == {"KILL", "PROCEED_WITH_CAUTION", "PROCEED", "STRONG_PROCEED"}

InitRefine ==
    /\ RunAtRest
    /\ fn = "call _refine_concept"
    /\ fn_in \in {[concept |-> c, pivots |-> p, decision |-> d] :
                     c \in ConceptTexts, p \in RefinePivots, d \in Decisions}
    /\ fn_out = "None"

ApplyRefineConcept ==
    /\ fn = "call _refine_concept"
    /\ fn_out' = RefinedText(fn_in.concept, RefineConcept(fn_in.pivots, fn_in.decision))
    /\ fn' = "return _refine_concept"
    /\ UNCHANGED <<fn_in, evaluators, concept, selected_models, pc, tasks, results,
                   evaluations, debates, verdict, exception>>

NextRefine == ApplyRefineConcept

SpecRefine == InitRefine /\ [][NextRefine]_vars

\* for each dimension, one keyword of each of its keyword tests
LegacyKeywords(dimension) ==
    CASE dimension = "Market Viability" ->
             {"niche", "platform", "revolutionary", "proven demand", "customers"}
      [] dimension = "Technical Feasibility" -> {"ai", "simple", "experienced", "api"}
      [] dimension = "Unit Economics" ->
             {"saas", "free", "platform", "hardware", "manual", "automated"}
      [] dimension = "Competitive Moats" ->
             {"patent", "integration", "commodity", "unique", "crowded", "data"}
      [] dimension = "Scaling Bottlenecks" ->
             {"custom", "automated", "expert", "platform", "local", "global"}

\* a dimension and a proposal with any combination of hits and misses of the
\* dimension's keyword tests
LegacyInputs ==
    UNION {{[concept |-> c, dimension |-> d] : c \in SUBSET LegacyKeywords(d)} :
              d \in DimensionSet}

InitLegacy ==
    /\ RunAtRest
    /\ fn = "call _evaluate_dimension"
    /\ fn_in \in LegacyInputs
    /\ fn_out = "None"

ApplyEvaluateDimension ==
    /\ fn = "call _evaluate_dimension"
    /\ fn_out' = EvaluateDimension(fn_in.concept, fn_in.dimension)
    /\ fn' = "return _evaluate_dimension"
    /\ UNCHANGED <<fn_in, evaluators, concept, selected_models, pc, tasks, results,
                   evaluations, debates, verdict, exception>>

NextLegacy == ApplyEvaluateDimension

SpecLegacy == InitLegacy /\ [][NextLegacy]_vars

\* dimension scores on both sides of every threshold of the decision table
PolicyScores == {2, 3, 4, 6, 10}

\* pairs of lists of DimensionScore over the first n dimensions, the second
\* list no lower than the first at any place
PolicyPairs(n) ==
    LET ordered == {x \in PolicyScores \X PolicyScores : x[1] <= x[2]}
        list(scores) ==
            [i \in 1..n |-> DimensionScore(DIMENSIONS[i], scores[i], "consensus", <<>>)]
    IN  {[first |-> list([i \in 1..n |-> p[i][1]]),
          second |-> list([i \in 1..n |-> p[i][2]])] : p \in [1..n -> ordered]}

\* keywords of proposals given to the legacy evaluator, none a substring of
\* another keyword of its lists
LegacyPolicyKeywords ==
    {"revenue", "platform", "global", "experienced", "automated", "patent", "ai", "manual"}

\* the dimension scores the legacy evaluate computes for each such proposal
LegacyPolicyLists == {LegacyDimensionScores(c) : c \in SUBSET LegacyPolicyKeywords}

\* pairs of such lists, the second no lower than the first at any place
LegacyPolicyPairs ==
    {p \in [first : LegacyPolicyLists, second : LegacyPolicyLists] :
        \A i \in DOMAIN DIMENSIONS : RatLE(p.first[i].score, p.second[i].score)}

InitPolicy ==
    /\ RunAtRest
    /\ \/ /\ fn = "call _make_decision"
          /\ \E n \in 1..4 : fn_in \in PolicyPairs(n)
       \/ /\ fn = "call legacy _make_decision"
          /\ fn_in \in LegacyPolicyPairs
    /\ fn_out = "None"

\* lines 270-273 of _synthesize_verdict, on each list of the pair
ApplyMakeDecisionToPair ==
    /\ fn = "call _make_decision"
    /\ fn_out' = [first |-> MakeDecision(OverallScore(fn_in.first), fn_in.first),
                  second |-> MakeDecision(OverallScore(fn_in.second), fn_in.second)]
    /\ fn' = "return _make_decision"
    /\ UNCHANGED <<fn_in, evaluators, concept, selected_models, pc, tasks, results,
                   evaluations, debates, verdict, exception>>

\* lines 111-114 of the legacy evaluate, on each list of the pair
ApplyLegacyMakeDecisionToPair ==
    /\ fn = "call legacy _make_decision"
    /\ fn_out' = [first |-> LegacyMakeDecision(LegacyOverallScore(fn_in.first),
                                               fn_in.first),
                  second |-> LegacyMakeDecision(LegacyOverallScore(fn_in.second),
                                                fn_in.second)]
    /\ fn' = "return legacy _make_decision"
    /\ UNCHANGED <<fn_in, evaluators, concept, selected_models, pc, tasks, results,
                   evaluations, debates, verdict, exception>>

NextPolicy ==
    \/ ApplyMakeDecisionToPair
    \/ ApplyLegacyMakeDecisionToPair

SpecPolicy == InitPolicy /\ [][NextPolicy]_vars

----------------------------------------------------------------------------
(* Decision policy: C5 *)

\* the decision table of the specification, with minScore = 0 for no scores
DecisionTable(overall, scores) ==
    LET minScore == IF scores = <<>> THEN 0 ELSE MinSeq(scores)
        criticallyLow == Cardinality({i \in DOMAIN scores : scores[i] <= 3})
    IN  IF overall.num >= 8 * overall.den /\ minScore >= 6 THEN "STRONG_PROCEED"
        ELSE IF overall.num >= 7 * overall.den /\ minScore >= 4 THEN "PROCEED"
        ELSE IF overall.num >= 6 * overall.den /\ minScore >= 3 THEN "PROCEED_WITH_CAUTION"
        ELSE IF overall.num >= 5 * overall.den /\ criticallyLow <= 1
             THEN "PROCEED_WITH_CAUTION"
        ELSE "KILL"

\* C5: _make_decision returns the first matching row of the decision table for
\* every overall score and every list of dimension scores, the empty list
\* included.  Fails on the empty list: min() raises ValueError.
C5_MakeDecisionFollowsTable ==
    fn = "return _make_decision" =>
        fn_out = DecisionTable(fn_in.overall_score, ScoresOf(fn_in.dimension_scores))

----------------------------------------------------------------------------
(* Score clamping: C9 *)

\* C9: every score of an evaluation returned by an evaluator lies in 1..10 and
\* is max(1, min(10, raw)) of the raw score of the decoded response, on the same
\* dimensions; validating the stored scores again changes nothing.
C9_StoredScoresAreClamped ==
    (fn = "return evaluate" /\ fn_out.st = "returned") =>
        LET stored == fn_out.val.scores
            raw == fn_in.response.scores
        IN  /\ \A d \in DOMAIN stored : stored[d] \in 1..10
            /\ ValidateScores(stored) = stored
            /\ (fn_in.kind = "api" /\ fn_in.response.kind = "json") =>
                   /\ DOMAIN stored = DOMAIN raw
                   /\ \A d \in DOMAIN raw :
                          stored[d] = IF raw[d] < 1 THEN 1
                                      ELSE IF raw[d] > 10 THEN 10 ELSE raw[d]
            /\ fn_in.kind = "mock" =>
                   DOMAIN stored = {fn_in.dimensions[i] : i \in DOMAIN fn_in.dimensions}

\* an API evaluator returned an evaluation built from a response with one raw
\* score below 1 and one above 10
C9_Witness ==
    /\ fn = "return evaluate"
    /\ fn_out.st = "returned"
    /\ fn_in.kind = "api"
    /\ fn_in.response.kind = "json"
    /\ \E d1, d2 \in DOMAIN fn_in.response.scores :
           /\ fn_in.response.scores[d1] < 1
           /\ fn_in.response.scores[d2] > 10
           /\ fn_out.val.scores[d1] = 1
           /\ fn_out.val.scores[d2] = 10

----------------------------------------------------------------------------
(* Validation experiments: C10 *)

ExperimentTemplates ==
    {"Customer Discovery Sprint", "Technical Proof of Concept",
     "Unit Economics Stress Test", "Competitive Differentiation Test",
     "Scaling Simulation"}

\* C10: _generate_experiments returns exactly 3 experiments for 0 to 5
\* DimensionVerdicts of any scores; with n < 3 DimensionVerdicts the first n are
\* dimension templates and the rest are "Assumption Validation".
C10_ExactlyThreeExperiments ==
    fn = "return _generate_experiments" =>
        /\ Len(fn_out) = 3
        /\ \A k \in 1..3 :
               IF k <= Len(fn_in)
               THEN fn_out[k] \in ExperimentTemplates
               ELSE fn_out[k] = "Assumption Validation"

\* experiments were generated from a single DimensionVerdict: two are padding
C10_Witness ==
    /\ fn = "return _generate_experiments"
    /\ Len(fn_in) = 1
    /\ fn_out[2] = "Assumption Validation"
    /\ fn_out[3] = "Assumption Validation"

----------------------------------------------------------------------------
(* List bounds of the verdict: C11 *)

\* C11: in every verdict _synthesize_verdict returns, critical_risks has at most
\* 5 entries, unified_pivots at most 3 and the failure_modes of every
\* DimensionVerdict at most 3, whatever the number of collected outputs and the
\* lengths of their lists.
C11_ListsAreBounded ==
    fn = "return _synthesize_verdict" =>
        /\ Len(fn_out.critical_risks) <= 5
        /\ Len(fn_out.unified_pivots) <= 3
        /\ \A k \in DOMAIN fn_out.dimension_scores :
               Len(fn_out.dimension_scores[k].failure_modes) <= 3

\* a verdict whose three lists were all cut: more than 5 risk candidates, more
\* than 3 distinct pivots, more than 3 distinct failure modes on a dimension
C11_Witness ==
    /\ fn = "return _synthesize_verdict"
    /\ Len(fn_out.critical_risks) = 5
    /\ Len(AllRisks(fn_out.dimension_scores)) > 5
    /\ Len(fn_out.unified_pivots) = 3
    /\ Cardinality({AllPivots(fn_in)[i] : i \in DOMAIN AllPivots(fn_in)}) > 3
    /\ \E k \in DOMAIN fn_out.dimension_scores :
           LET all == AllFailureModes(
                          Contributors(fn_out.dimension_scores[k].dimension, fn_in))
           IN  /\ Len(fn_out.dimension_scores[k].failure_modes) = 3
               /\ Cardinality({all[i] : i \in DOMAIN all}) > 3

----------------------------------------------------------------------------
(* Minority report: C12 *)

\* the collected output reports scores and their mean is 3 or more away from
\* the consensus score
DeviatesByThree(e, consensus_score) ==
    /\ DOMAIN e.scores # {}
    /\ LET n == SumScores(e.scores, DOMAIN e.scores)
           m == Cardinality(DOMAIN e.scores)
       IN  AbsInt(n * consensus_score.den - consensus_score.num * m)
               >= 3 * m * consensus_score.den

\* C12: _find_minority_report returns a report iff some collected output has a
\* mean of its reported scores 3 or more away from the consensus score, and the
\* report names the first such output in collected order.
\* Fails: a mean exactly 3 away can compare below 3 in floats (23/5 - 8/5), and
\* an output that reports no score is given the mean 0.
C12_MinorityIffDeviation ==
    fn = "return _find_minority_report" =>
        LET evals == fn_in.evaluations
            dissenters == {i \in DOMAIN evals :
                              DeviatesByThree(evals[i], fn_in.consensus_score)}
        IN  /\ fn_out # "None" <=> dissenters # {}
            /\ fn_out # "None" =>
                   \E i \in dissenters :
                       /\ fn_out = evals[i].model_name
                       /\ \A j \in dissenters : i <= j

----------------------------------------------------------------------------
(* Degraded parse: C13 *)

\* C13: when the remote call succeeded and the response text does not decode
\* into the expected fields, evaluate never raises and returns an output with no
\* scores, the single failure mode "Failed to parse model response", confidence
\* 0.5 and a reasoning that embeds the parse error.
\* Fails for a JSON text that is not an object: only JSONDecodeError is caught,
\* parsed.get raises and evaluate raises RuntimeError.
C13_DegradedParseIsReturned ==
    (/\ fn = "return evaluate"
     /\ fn_in.kind = "api"
     /\ fn_in.response.kind \in {"undecodable", "not_object"}) =>
        /\ fn_out.st = "returned"
        /\ fn_out.val.scores = EmptyScores
        /\ fn_out.val.failure_modes = <<"Failed to parse model response">>
        /\ fn_out.val.pivots_suggested = <<>>
        /\ fn_out.val.confidence = 50
        /\ Len(fn_out.val.reasoning) > Len("Error parsing response: ")
        /\ SubSeq(fn_out.val.reasoning, 1, Len("Error parsing response: "))
               = "Error parsing response: "

----------------------------------------------------------------------------
(* Rule-based fallback: C14 *)

\* the keyword rules of the fallback: dimension, keyword set, delta
KeywordRules ==
    {[dim |-> "Market Viability", words |-> {"revenue", "customers", "validated"}, delta |-> 2],
     [dim |-> "Market Viability", words |-> {"enterprise", "global", "platform"}, delta |-> 1],
     [dim |-> "Market Viability", words |-> {"niche", "small"}, delta |-> 0 - 2],
     [dim |-> "Technical Feasibility", words |-> {"proven", "existing", "simple"}, delta |-> 2],
     [dim |-> "Technical Feasibility", words |-> {"ai", "blockchain", "quantum"}, delta |-> 0 - 2],
     [dim |-> "Unit Economics", words |-> {"saas", "subscription", "recurring"}, delta |-> 2],
     [dim |-> "Unit Economics", words |-> {"free", "ad-supported"}, delta |-> 0 - 2],
     [dim |-> "Competitive Moats", words |-> {"network", "proprietary", "patent"}, delta |-> 2],
     [dim |-> "Competitive Moats", words |-> {"commodity"}, delta |-> 0 - 2],
     [dim |-> "Scaling Bottlenecks", words |-> {"automated", "platform", "cloud"}, delta |-> 2],
     [dim |-> "Scaling Bottlenecks", words |-> {"manual", "custom"}, delta |-> 0 - 2]}

\* 5 + the deltas of the rules of the dimension that have a keyword in the text
RuleScore(dim, c) ==
    LET fired == {r \in KeywordRules : r.dim = dim /\ r.words \cap c # {}}
    IN  5 + SumOverSet(fired, [r \in fired |-> r.delta])

\* C14: MockEvaluator.evaluate never fails; for every proposal and every
\* dimension of the list it is given it returns one score, equal to
\* clamp(5 + the deltas of the keyword rules that fire, 1, 10), and its
\* confidence is 0.3.
C14_MockScoresFollowRules ==
    (fn = "return evaluate" /\ fn_in.kind = "mock") =>
        /\ fn_out.st = "returned"
        /\ DOMAIN fn_out.val.scores = {fn_in.dimensions[i] : i \in DOMAIN fn_in.dimensions}
        /\ \A d \in DOMAIN fn_out.val.scores :
               LET raw == RuleScore(d, fn_in.concept)
               IN  fn_out.val.scores[d] =
                       IF raw < 1 THEN 1 ELSE IF raw > 10 THEN 10 ELSE raw
        /\ fn_out.val.confidence = 30

\* a mock evaluation of a proposal on which a raising and a lowering rule of one
\* dimension fire, each on one keyword of its set
C14_Witness ==
    /\ fn = "return evaluate"
    /\ fn_in.kind = "mock"
    /\ fn_in.concept = {"customers", "custom", "niche", "ai"}
    /\ fn_in.dimensions = DIMENSIONS
    /\ fn_out.val.scores["Market Viability"] = 5
    /\ fn_out.val.scores["Technical Feasibility"] = 3
    /\ fn_out.val.scores["Scaling Bottlenecks"] = 3

----------------------------------------------------------------------------
(* Cancellation: C15 *)

\* C15: when the caller cancels the call while evaluator calls are in flight,
\* every call still in flight is cancelled, no verdict is produced, and nothing
\* of the run is kept: the outputs of the calls that had finished are not
\* collected.
C15_CancelDiscardsRun ==
    pc = "cancelled" =>
        /\ \A i \in DOMAIN results : results[i].st # "pending"
        /\ exception = "CancelledError"
        /\ verdict = NoVerdict
        /\ evaluations = <<>>
        /\ debates = <<>>
        /\ ~ENABLED Next

\* a call cancelled with one evaluator call finished and another in flight
C15_Witness ==
    /\ pc = "cancelled"
    /\ \E i \in DOMAIN results : results[i].st = "returned"
    /\ \E i \in DOMAIN results : results[i].st = "cancelled"

----------------------------------------------------------------------------
(* No retry, one output per evaluator: C16 *)

\* C16: in any run each evaluator is called at most once: no name is launched
\* twice, each launched call has one result slot, a failed call is absent from
\* the collected list, and the collected list holds at most one output per
\* evaluator.
\* Fails for a selection that repeats a name: line 155 launches every entry.
C16_EachEvaluatorCalledOnce ==
    /\ \A i, j \in DOMAIN tasks : tasks[i] = tasks[j] => i = j
    /\ pc # "start" => Len(results) = Len(tasks)
    /\ FannedOut =>
           Len(evaluations) = Cardinality({i \in DOMAIN results : results[i].st = "returned"})
    /\ \A i, j \in DOMAIN evaluations :
           evaluations[i].model_name = evaluations[j].model_name => i = j

----------------------------------------------------------------------------
(* Overall score and decision: C17 *)

----------------------------------------------------------------------------
(* Concurrency of the fan-out: C18 *)

----------------------------------------------------------------------------
(* Failure modes and reasoning of a DimensionVerdict: C19, C20 *)

\* C19: the failure modes of a DimensionVerdict are the first three distinct
\* strings, in order of first occurrence, of the contributors' failure-mode
\* lists concatenated in collected order; so equal inputs give equal lists.
\* Fails: line 264 takes the first three of list(set(...)), whose order follows
\* the string hashes of the process.
C19_FailureModesInFirstOccurrenceOrder ==
    fn = "return _synthesize_verdict" =>
        \A k \in DOMAIN fn_out.dimension_scores :
            LET dv == fn_out.dimension_scores[k]
            IN  dv.failure_modes =
                    Take(Dedupe(AllFailureModes(Contributors(dv.dimension, fn_in))), 3)

\* C20: the reasoning of a DimensionVerdict comes from the evaluator that
\* supplies its perspective: the first evaluator of the dimension's priority
\* list that contributed, else the first contributor; it is that evaluator's
\* reasoning cut to 200 characters, and "No evaluations available" is not used
\* when an evaluator contributed.
\* Fails: _synthesize_reasoning skips a priority evaluator whose reasoning is
\* empty, and returns "See model evaluations" for an empty fallback reasoning.
C20_ReasoningFromPerspectiveSource ==
    fn = "return _synthesize_verdict" =>
        \A k \in DOMAIN fn_out.dimension_scores :
            LET dv == fn_out.dimension_scores[k]
                contributors == Contributors(dv.dimension, fn_in)
                named(m) == SelectSeq(contributors, LAMBDA e : e.model_name = m)
                hits == SelectSeq(DimensionModelPriority(dv.dimension),
                                  LAMBDA m : named(m) # <<>>)
                source == IF hits # <<>> THEN named(Head(hits))[1] ELSE contributors[1]
            IN  /\ dv.perspective = source.role
                /\ dv.reasoning = SubSeq(source.reasoning, 1,
                                         Min2(200, Len(source.reasoning)))
                /\ dv.reasoning # "No evaluations available"

----------------------------------------------------------------------------
(* Perspective label of a DimensionVerdict: C21 *)

\* C21: the perspective of every DimensionVerdict is the registry role of the
\* first evaluator of the dimension's priority list that contributed to the
\* dimension; when no evaluator of the list contributed it is the role of the
\* first contributor in collected order; it is never "consensus", which is
\* reserved for a dimension without contributors.
C21_PerspectiveFollowsPriority ==
    fn = "return _synthesize_verdict" =>
        \A k \in DOMAIN fn_out.dimension_scores :
            LET dv == fn_out.dimension_scores[k]
                scored == {i \in DOMAIN fn_in : dv.dimension \in DOMAIN fn_in[i].scores}
                names == {fn_in[i].model_name : i \in scored}
                priority == DimensionModelPriority(dv.dimension)
                ranked == {p \in DOMAIN priority : priority[p] \in names}
                first == CHOOSE i \in scored : \A j \in scored : i <= j
            IN  /\ scored # {}
                /\ ranked # {} =>
                       dv.perspective =
                           RoleOf(priority[CHOOSE p \in ranked : \A q \in ranked : p <= q])
                /\ ranked = {} => dv.perspective = fn_in[first].role
                /\ dv.perspective # "consensus"

\* a verdict with a dimension whose first contributor is not on the priority
\* list while a later one is, and a dimension none of whose contributors is on
\* the list
C21_Witness ==
    /\ fn = "return _synthesize_verdict"
    /\ Len(fn_in) = 2
    /\ fn_in[1].model_name = "kimi"
    /\ fn_in[2].model_name = "claude_opus"
    /\ DOMAIN fn_in[1].scores = DimensionSet
    /\ DOMAIN fn_in[2].scores = {"Market Viability"}
    /\ \E k \in DOMAIN fn_out.dimension_scores :
           /\ fn_out.dimension_scores[k].dimension = "Market Viability"
           /\ fn_out.dimension_scores[k].perspective = "deep_reasoning_critic"
    /\ \E k \in DOMAIN fn_out.dimension_scores :
           /\ fn_out.dimension_scores[k].dimension = "Unit Economics"
           /\ fn_out.dimension_scores[k].perspective = "apac_expansion"

----------------------------------------------------------------------------
(* Choice of the validation experiments: C22 *)

\* the experiment template of each dimension
TemplateOf ==
    [d \in DimensionSet |->
        CASE d = "Market Viability"      -> "Customer Discovery Sprint"
          [] d = "Technical Feasibility" -> "Technical Proof of Concept"
          [] d = "Unit Economics"        -> "Unit Economics Stress Test"
          [] d = "Competitive Moats"     -> "Competitive Differentiation Test"
          [] d = "Scaling Bottlenecks"   -> "Scaling Simulation"]

\* the place of entry i among the DimensionVerdicts ordered by score, ties by
\* position in the list
ScoreRank(dimension_scores, i) ==
    1 + Cardinality({j \in DOMAIN dimension_scores :
                        \/ dimension_scores[j].score < dimension_scores[i].score
                        \/ /\ dimension_scores[j].score = dimension_scores[i].score
                           /\ j < i})

\* C22: the experiments of _generate_experiments are, in order, the templates
\* of the three lowest-scoring DimensionVerdicts, ties broken by dimension
\* order; every other place holds the padding, so no dimension outside the
\* three lowest contributes an experiment.
C22_ExperimentsOfThreeLowest ==
    fn = "return _generate_experiments" =>
        /\ Len(fn_out) = 3
        /\ \A i \in DOMAIN fn_in :
               ScoreRank(fn_in, i) <= 3 =>
                   fn_out[ScoreRank(fn_in, i)] = TemplateOf[fn_in[i].dimension]
        /\ \A k \in 1..3 : k > Len(fn_in) => fn_out[k] = "Assumption Validation"

\* five DimensionVerdicts, the lowest score on the last dimension and a tie of
\* three for the next two places: the earlier two dimensions of the tie are
\* chosen, behind the last dimension
C22_Witness ==
    /\ fn = "return _generate_experiments"
    /\ Len(fn_in) = 5
    /\ fn_in[1].score = 8
    /\ fn_in[2].score = 5
    /\ fn_in[3].score = 5
    /\ fn_in[4].score = 5
    /\ fn_in[5].score = 2
    /\ fn_out = <<"Scaling Simulation", "Technical Proof of Concept",
                  "Unit Economics Stress Test">>

----------------------------------------------------------------------------
(* Critical risks: C23 *)

\* the failure modes that are candidates for critical_risks: <<k, m>> is the
\* m-th failure mode, m <= 2, of the k-th DimensionVerdict, which scores below 6
RiskCandidates(dimension_scores) ==
    {<<k, m>> \in (DOMAIN dimension_scores) \X {1, 2} :
        /\ dimension_scores[k].score < 6
        /\ m <= Len(dimension_scores[k].failure_modes)}

\* the place of a candidate, in dimension order and then failure-mode order
RiskPlace(dimension_scores, c) ==
    1 + Cardinality({b \in RiskCandidates(dimension_scores) :
                        b[1] < c[1] \/ (b[1] = c[1] /\ b[2] < c[2])})

\* C23: critical_risks is the first 5 entries of the list that holds, in
\* dimension order, for every DimensionVerdict scoring below 6, its first 2
\* failure modes, each prefixed with "[dimension name] "; a DimensionVerdict
\* scoring 6 or more contributes none.
C23_CriticalRisksOfWeakDimensions ==
    fn = "return _synthesize_verdict" =>
        LET dvs == fn_out.dimension_scores
            candidates == RiskCandidates(dvs)
        IN  /\ Len(fn_out.critical_risks) = Min2(5, Cardinality(candidates))
            /\ \A c \in candidates :
                   RiskPlace(dvs, c) <= 5 =>
                       fn_out.critical_risks[RiskPlace(dvs, c)] =
                           "[" \o dvs[c[1]].dimension \o "] " \o dvs[c[1]].failure_modes[c[2]]

\* a verdict with a DimensionVerdict scoring exactly 6 that has failure modes
\* and contributes none, and one scoring below 6 with three failure modes of
\* which two are listed
C23_Witness ==
    /\ fn = "return _synthesize_verdict"
    /\ \E k \in DOMAIN fn_out.dimension_scores :
           LET dv == fn_out.dimension_scores[k]
           IN  /\ dv.score = 6
               /\ dv.failure_modes # <<>>
               /\ \A r \in DOMAIN fn_out.critical_risks :
                      \A m \in DOMAIN dv.failure_modes :
                          fn_out.critical_risks[r] #
                              "[" \o dv.dimension \o "] " \o dv.failure_modes[m]
    /\ \E k \in DOMAIN fn_out.dimension_scores :
           LET dv == fn_out.dimension_scores[k]
           IN  /\ dv.score < 6
               /\ Len(dv.failure_modes) = 3
               /\ \E r \in DOMAIN fn_out.critical_risks :
                      fn_out.critical_risks[r] =
                          "[" \o dv.dimension \o "] " \o dv.failure_modes[2]
               /\ \A r \in DOMAIN fn_out.critical_risks :
                      fn_out.critical_risks[r] #
                          "[" \o dv.dimension \o "] " \o dv.failure_modes[3]

----------------------------------------------------------------------------
(* Unified pivots: C24 *)

\* <<i, m>>: the m-th pivot of the i-th collected output
PivotOccurrences(evals) ==
    UNION {{<<i, m>> : m \in DOMAIN evals[i].pivots_suggested} : i \in DOMAIN evals}

\* occurrence a comes before occurrence b in the concatenation
OccursBefore(a, b) == a[1] < b[1] \/ (a[1] = b[1] /\ a[2] < b[2])

\* the occurrences that are the first of their pivot
FirstOccurrences(evals) ==
    {o \in PivotOccurrences(evals) :
        \A b \in PivotOccurrences(evals) :
            OccursBefore(b, o) =>
                evals[b[1]].pivots_suggested[b[2]] # evals[o[1]].pivots_suggested[o[2]]}

\* C24: unified_pivots is the first 3 entries of the evaluators' pivot lists
\* concatenated in collected order with every duplicate removed and the first
\* occurrence kept: it holds no duplicate and nothing no evaluator suggested.
C24_PivotsAreFirstThreeDistinct ==
    fn = "return _synthesize_verdict" =>
        LET firsts == FirstOccurrences(fn_in)
            place(o) == 1 + Cardinality({b \in firsts : OccursBefore(b, o)})
        IN  /\ Len(fn_out.unified_pivots) = Min2(3, Cardinality(firsts))
            /\ \A o \in firsts :
                   place(o) <= 3 =>
                       fn_out.unified_pivots[place(o)] = fn_in[o[1]].pivots_suggested[o[2]]

\* two outputs: the second repeats the second pivot of the first as its own
\* first pivot, and the repetition is skipped
C24_Witness ==
    /\ fn = "return _synthesize_verdict"
    /\ Len(fn_in) = 2
    /\ fn_in[1].pivots_suggested = <<"Narrow", "Upsell">>
    /\ fn_in[2].pivots_suggested = <<"Upsell", "License", "Franchise">>
    /\ fn_out.unified_pivots = <<"Narrow", "Upsell", "License">>

----------------------------------------------------------------------------
(* Refined proposal: C25 *)

\* C25: the text _refine_concept returns is the "KILL: ..." string around the
\* proposal if and only if the decision is KILL; otherwise, with a non-empty
\* pivot list, it is the proposal followed by the first pivot, or the first two
\* joined with "AND"; otherwise it is the proposal unchanged.
C25_RefinedTextFollowsDecision ==
    fn = "return _refine_concept" =>
        LET kill_text == "KILL: " \o fn_in.concept
                             \o " - Fundamental issues require complete rethink."
            joined == IF Len(fn_in.pivots) = 1 THEN fn_in.pivots[1]
                      ELSE fn_in.pivots[1] \o " AND " \o fn_in.pivots[2]
        IN  /\ fn_out = kill_text <=> fn_in.decision = "KILL"
            /\ fn_in.decision # "KILL" /\ fn_in.pivots # <<>> =>
                   fn_out = fn_in.concept \o " PIVOTS: " \o joined
            /\ fn_in.decision # "KILL" /\ fn_in.pivots = <<>> => fn_out = fn_in.concept

\* a KILL decision with pivots at hand: the pivots are left out of the text
C25_Witness ==
    /\ fn = "return _refine_concept"
    /\ fn_in.decision = "KILL"
    /\ fn_in.concept = "Drone delivery"
    /\ Len(fn_in.pivots) = 3
    /\ fn_out = "KILL: Drone delivery - Fundamental issues require complete rethink."

----------------------------------------------------------------------------
(* Range of a consensus score: C26 *)

\* the scores the collected outputs evals give to the dimension
ContributedScores(evals, dimension) ==
    {evals[i].scores[dimension] :
        i \in {j \in DOMAIN evals : dimension \in DOMAIN evals[j].scores}}

\* C26: with scores in 1..10, confidences in [0, 1] and a positive sum of
\* weights, the score of every DimensionVerdict is an integer no lower than the
\* lowest and no higher than the highest contributing score, hence in 1..10;
\* when all contributors give the same score it is that score.
C26_ConsensusWithinContributedRange ==
    fn = "return _synthesize_verdict" =>
        \A k \in DOMAIN fn_out.dimension_scores :
            LET dv == fn_out.dimension_scores[k]
                given == ContributedScores(fn_in, dv.dimension)
            IN  /\ given # {}
                /\ dv.score \in 1..10
                /\ \E s \in given : s <= dv.score
                /\ \E s \in given : dv.score <= s
                /\ \A s \in given : given = {s} => dv.score = s

\* a verdict with a dimension whose consensus lies strictly between the lowest
\* and the highest contribution, and a dimension on which several evaluators
\* agree
C26_Witness ==
    /\ fn = "return _synthesize_verdict"
    /\ \A i \in DOMAIN fn_in : fn_in[i].confidence \in 0..100
    /\ \E k \in DOMAIN fn_out.dimension_scores :
           LET dv == fn_out.dimension_scores[k]
               given == ContributedScores(fn_in, dv.dimension)
           IN  /\ \E s \in given : s < dv.score
               /\ \E s \in given : dv.score < s
    /\ \E k \in DOMAIN fn_out.dimension_scores :
           LET dv == fn_out.dimension_scores[k]
           IN  /\ Len(dv.model_evaluations) >= 2
               /\ ContributedScores(fn_in, dv.dimension) = {dv.score}

----------------------------------------------------------------------------
(* Scores of the legacy evaluator: C27 *)

\* C27: every DimensionScore of the legacy CrucibleEvaluator has an integer
\* score in 1..10, for every combination of keyword hits and every dimension.
\* Fails: Technical Feasibility subtracts 1.5 per red flag and Competitive
\* Moats adds 2.5 per green flag, so a proposal without any keyword scores 4.5
\* on Technical Feasibility.
C27_LegacyScoreIsIntegerInRange ==
    fn = "return _evaluate_dimension" =>
        /\ fn_out.score.den = 1
        /\ fn_out.score.num \in 1..10

----------------------------------------------------------------------------
(* Monotonicity of the decision policy: C28 *)

\* the order KILL < PROCEED_WITH_CAUTION < PROCEED < STRONG_PROCEED
DecisionRank ==
    [d \in Decisions |->
        CASE d = "KILL" -> 0
          [] d = "PROCEED_WITH_CAUTION" -> 1
          [] d = "PROCEED" -> 2
          [] d = "STRONG_PROCEED" -> 3]

\* C28: both decision policies are monotone: for two non-empty lists of
\* dimension scores over the same dimensions, the second no lower than the first
\* at any place, and the overall score of each list its mean, the decision for
\* the second list is not lower than the decision for the first.
C28_DecisionIsMonotone ==
    fn \in {"return _make_decision", "return legacy _make_decision"} =>
        /\ fn_out.first \in Decisions
        /\ fn_out.second \in Decisions
        /\ DecisionRank[fn_out.first] <= DecisionRank[fn_out.second]

\* a pair of lists that differ at one place only, by which the decision rises
\* from KILL to PROCEED_WITH_CAUTION, under the orchestrator's policy
C28_Witness ==
    /\ fn = "return _make_decision"
    /\ Len(fn_in.first) = 3
    /\ Cardinality({i \in 1..3 : fn_in.first[i].score < fn_in.second[i].score}) = 1
    /\ fn_out.first = "KILL"
    /\ fn_out.second = "PROCEED_WITH_CAUTION"

----------------------------------------------------------------------------
(* Independence of the completion order: C29 *)

\* the slots whose call returned an output
ReturnedSlots == {i \in DOMAIN results : results[i].st = "returned"}

\* C29: the verdict does not depend on the order in which the concurrent calls
\* finish: whenever a call finishes, its outcome is kept in the slot of its
\* place in the selection; the collected list is the returned outputs in slot
\* order; and the consensus scores, the decision, the unified pivots, the
\* perspective labels and the minority report of a returned verdict are
\* determined by the collected list.
C29_VerdictIndependentOfCompletionOrder ==
    /\ \A i \in ReturnedSlots : results[i].val.model_name = tasks[i]
    /\ pc \in {"debate", "synth", "done", "raised"} =>
           /\ Len(evaluations) = Cardinality(ReturnedSlots)
           /\ \A i \in ReturnedSlots :
                  evaluations[Cardinality({j \in ReturnedSlots : j <= i})] = results[i].val
    /\ pc = "done" =>
           /\ verdict.dimension_scores \in DimensionScoreLists(1, evaluations)
           /\ verdict.consensus_score = OverallScore(verdict.dimension_scores)
           /\ verdict.decision =
                  MakeDecision(verdict.consensus_score, verdict.dimension_scores)
           /\ verdict.unified_pivots = SynthesizePivots(evaluations)
           /\ verdict.minority_report =
                  FindMinorityReport(evaluations, verdict.consensus_score)
           /\ \A k \in DOMAIN verdict.dimension_scores :
                  LET dv == verdict.dimension_scores[k]
                  IN  dv.perspective =
                          GetDimensionPerspective(dv.dimension,
                                                  Contributors(dv.dimension, evaluations))

\* a verdict from two remote calls, either of which could finish first, with
\* different outputs: the collected list is in selection order
C29_Witness ==
    /\ pc = "done"
    /\ Len(tasks) = 2
    /\ evaluators[tasks[1]] = "api"
    /\ evaluators[tasks[2]] = "api"
    /\ Len(evaluations) = 2
    /\ evaluations[1].model_name = tasks[1]
    /\ evaluations[2].model_name = tasks[2]
    /\ tasks[1] # tasks[2]
    /\ evaluations[1].scores # evaluations[2].scores
    /\ verdict.decision # "None"

----------------------------------------------------------------------------
(* A collected output without scores: C30 *)

\* the list without its i-th entry
Without(list, i) == SubSeq(list, 1, i - 1) \o SubSeq(list, i + 1, Len(list))

\* the dimensions and consensus scores of a list of DimensionVerdicts
ConsensusOf(dimension_scores) ==
    [k \in DOMAIN dimension_scores |->
        <<dimension_scores[k].dimension, dimension_scores[k].score>>]

\* the mean of the output's scores, taken as 0 when it reports none, is 3 or
\* more away from the consensus score
DeviatesWithZeroMean(e, consensus_score) ==
    LET n == IF DOMAIN e.scores = {} THEN 0 ELSE SumScores(e.scores, DOMAIN e.scores)
        m == IF DOMAIN e.scores = {} THEN 1 ELSE Cardinality(DOMAIN e.scores)
    IN  AbsInt(n * consensus_score.den - consensus_score.num * m)
            >= 3 * m * consensus_score.den

\* C30: a collected output with an empty score mapping contributes to no
\* DimensionVerdict and changes no consensus score, but it is given the mean 0
\* by the minority detection: whenever the consensus score is 3 or more and no
\* earlier collected output deviates by 3 or more, the minority report names
\* its evaluator.
C30_EmptyScoresNamedAsMinority ==
    fn = "return _synthesize_verdict" =>
        \A i \in DOMAIN fn_in :
            DOMAIN fn_in[i].scores = {} =>
                /\ \A k \in DOMAIN fn_out.dimension_scores :
                       LET dv == fn_out.dimension_scores[k]
                           scoring == {j \in DOMAIN fn_in : dv.dimension \in DOMAIN fn_in[j].scores}
                       IN  /\ i \notin scoring
                           /\ Len(dv.model_evaluations) = Cardinality(scoring)
                /\ ConsensusOf(fn_out.dimension_scores) \in
                       {ConsensusOf(l) : l \in DimensionScoreLists(1, Without(fn_in, i))}
                /\ (/\ RatGE(fn_out.consensus_score, 3)
                    /\ \A j \in 1..(i - 1) :
                           ~DeviatesWithZeroMean(fn_in[j], fn_out.consensus_score))
                       => fn_out.minority_report = fn_in[i].model_name

\* two outputs, the consensus score exactly 3: the first scores 3 on every
\* dimension, the second reports no score and is the one named
C30_Witness ==
    /\ fn = "return _synthesize_verdict"
    /\ Len(fn_in) = 2
    /\ DOMAIN fn_in[1].scores = DimensionSet
    /\ DOMAIN fn_in[2].scores = {}
    /\ fn_in[1].model_name = "claude_opus"
    /\ fn_in[2].model_name = "kimi"
    /\ fn_out.consensus_score = Rat(15, 5)
    /\ Len(fn_out.dimension_scores) = 5
    /\ fn_out.minority_report = "kimi"

====
